---- MODULE Spec2Model ----
(***************************************************************************)
(* Authentication and session-identity subsystem of the TODO backend:      *)
(* the user store as seen by UserService, AuthService and OAuth2Service,   *)
(* the bcrypt credential hasher and the JWT token service.                 *)
(*                                                                         *)
(* Every request handler runs in its own database session; a handler is    *)
(* one atomic action.  Spec drives the identity reconciler and the user    *)
(* service, SpecAuth the auth facade (login, current user, refresh, OAuth  *)
(* login) over accounts that are switched on and off, and SpecToken the    *)
(* token service alone under a moving clock.                               *)
(***************************************************************************)
EXTENDS Integers, Sequences, FiniteSets, TLC

VARIABLES
    users,   \* the users table, in order of creation
    chosen,  \* per user, the password its holder last set: <<>> or <<password>>
    last,    \* the outcome of the last handler
    now,     \* the clock (seconds)
    inflight, \* per concurrent callback request, how far its reconciliation got
    tasks,   \* the tasks table: per primary key, <<>> or <<row>>
    tags     \* the tags table: per primary key, <<>> or <<row>>

vars == <<users, chosen, last, now, inflight, tasks, tags>>

(***************************************************************************)
(* Input domains and bounds                                                *)
(***************************************************************************)

\* Python None for string-valued columns and arguments.
None == "None"

\* Addresses accepted by EmailStr.
Emails == {"a@x", "b@x"}

\* A password is <<first 72 bytes, remaining bytes>>.
PasswordHeads == {"pw1", "pw2"}
PasswordTails == {"", "tail"}
Passwords == PasswordHeads \X PasswordTails

\* Salts drawn by bcrypt for a fresh hash.
Salts == {"s1", "s2"}

\* Display names and avatar pictures (None = not supplied).
Names == {None, "n1"}
Pictures == {None, "picA"}

\* External ids handed out by a provider.
OAuthIds == {"x1", "x2"}

\* Arguments of handlers whose outcome record keeps none.
NoArgs == <<>>

\* Number of clock steps in SpecToken.
MaxTicks == 3

(***************************************************************************)
(* Configuration (core/config.py)                                          *)
(***************************************************************************)

SECRET_KEY == "dev-secret-key-change-in-production-please-use-strong-key"
ALGORITHM == "HS256"
ACCESS_TOKEN_EXPIRE_MINUTES == 1440

\* Keys of OAuth2Service.PROVIDER_CONFIG that reconciliation is driven with.
GOOGLE == "google"
GITHUB == "github"
MICROSOFT == "microsoft"
Providers == {GOOGLE, GITHUB}

\* External identities in play: two accounts at one provider, one at another.
OAuthIdentities == {<<GOOGLE, "x1">>, <<GOOGLE, "x2">>, <<GITHUB, "x1">>}

(***************************************************************************)
(* Credential hasher (core/security.py)                                    *)
(***************************************************************************)

\* Absent credential (hashed_password IS NULL).
NoHash == <<>>

\* bcrypt only digests the first 72 bytes (truncate_error=False).
BcryptTruncate(password) == password[1]

\* Hashing under one fixed salt.
get_password_hash_unsalted(password, salt) == <<"s1", BcryptTruncate(password)>>

\* pwd_context.hash with the salt bcrypt drew.
get_password_hash(password, salt) == <<salt, BcryptTruncate(password)>>

\* A stored string that no scheme of the context identifies as a hash.
Unidentified(text) == <<text>>
MalformedHashes ==
    {Unidentified(""), Unidentified("not-a-bcrypt-hash"), Unidentified("plaintext-pw1")}

\* CryptContext.verify letting any secret pass when no hash is stored.
pwd_context_verify_absent_ok(secret, hash) ==
    IF hash = NoHash
    THEN [raised |-> FALSE, error |-> "", value |-> TRUE]
    ELSE IF Len(hash) /= 2
    THEN [raised |-> TRUE, error |-> "UnknownHashError", value |-> FALSE]
    ELSE [raised |-> FALSE, error |-> "",
          value |-> get_password_hash(secret, hash[1]) = hash]

\* CryptContext.verify: a None hash never verifies; a string no scheme
\* identifies raises UnknownHashError; otherwise the digest of the secret
\* under the stored salt is compared.
pwd_context_verify(secret, hash) ==
    IF hash = NoHash
    THEN [raised |-> FALSE, error |-> "", value |-> FALSE]
    ELSE IF Len(hash) /= 2
    THEN [raised |-> TRUE, error |-> "UnknownHashError", value |-> FALSE]
    ELSE [raised |-> FALSE, error |-> "",
          value |-> get_password_hash(secret, hash[1]) = hash]

\* verify_password: returns what the context returns and lets what it
\* raises through.
verify_password(plain_password, hashed_password) ==
    pwd_context_verify(plain_password, hashed_password)

(***************************************************************************)
(* Token service (core/security.py)                                        *)
(***************************************************************************)

\* timedelta arguments: <<>> is None, <<d>> is d seconds.
NoDelta == <<>>

\* What splitting a token string at its dots and decoding the segments
\* gives: "jwt" (three segments, header and payload are JSON objects),
\* "segments" (not three segments), "header" (the header segment is not
\* JSON), "payload" (the payload segment is not a JSON object).
TokenForms == {"jwt", "segments", "header", "payload"}

\* The bytes a signature covers: the header and payload segments.
SigningInput(token) == <<token.form, token.header, token.payload>>

\* HMAC over the signing input.
JwtSign(key, signing_input) == <<key, signing_input>>

\* jwt.encode: serialise header and claims, sign, join with dots.
JwtEncode(claims, key, algorithm) ==
    LET unsigned == [form |-> "jwt",
                     header |-> [alg |-> algorithm, typ |-> "JWT"],
                     payload |-> claims]
    IN  [form |-> "jwt", header |-> unsigned.header, payload |-> claims,
         signature |-> JwtSign(key, SigningInput(unsigned))]

\* create_access_token subtracting the time-to-live.
create_access_token_past(subject, expires_delta, t) ==
    LET expire == IF expires_delta /= NoDelta /\ expires_delta[1] /= 0
                  THEN t - expires_delta[1]
                  ELSE t - ACCESS_TOKEN_EXPIRE_MINUTES * 60
        to_encode == [exp |-> expire, iat |-> t, sub |-> subject, type |-> "access"]
    IN  JwtEncode(to_encode, SECRET_KEY, ALGORITHM)

\* jose: exp = now + ttl, iat = now, sub = str(subject), type tag "access".
\* "if expires_delta" is false for None and for a zero timedelta.
create_access_token(subject, expires_delta, t) ==
    LET expire == IF expires_delta /= NoDelta /\ expires_delta[1] /= 0
                  THEN t + expires_delta[1]
                  ELSE t + ACCESS_TOKEN_EXPIRE_MINUTES * 60
        to_encode == [exp |-> expire, iat |-> t, sub |-> subject, type |-> "access"]
    IN  JwtEncode(to_encode, SECRET_KEY, ALGORITHM)

\* What decode_access_token returns or raises.
Decoded(payload) == [ok |-> TRUE, error |-> "", detail |-> "", payload |-> <<payload>>]
Raised(error, detail) == [ok |-> FALSE, error |-> error, detail |-> detail, payload |-> <<>>]

\* decode_access_token rejecting a token in the second its exp names.
decode_access_token_strict(token, t) ==
    IF token.form = "segments" THEN Raised("JWTError", "Not enough segments")
    ELSE IF token.form = "header" THEN Raised("JWTError", "Invalid header string")
    ELSE IF token.header.alg /= ALGORITHM
    THEN Raised("JWTError", "The specified alg value is not allowed")
    ELSE IF token.signature /= JwtSign(SECRET_KEY, SigningInput(token))
    THEN Raised("JWTError", "Signature verification failed.")
    ELSE IF token.form = "payload" THEN Raised("JWTError", "Invalid payload string")
    ELSE IF token.payload.exp <= t
    THEN Raised("ExpiredSignatureError", "Signature has expired.")
    ELSE Decoded(token.payload)

\* decode_access_token without the signature check.
decode_access_token_unverified(token, t) ==
    IF token.form = "segments" THEN Raised("JWTError", "Not enough segments")
    ELSE IF token.form = "header" THEN Raised("JWTError", "Invalid header string")
    ELSE IF token.form = "payload" THEN Raised("JWTError", "Invalid payload string")
    ELSE IF token.payload.exp < t
    THEN Raised("ExpiredSignatureError", "Signature has expired.")
    ELSE Decoded(token.payload)

\* jwt.decode at time t, in jose's order: split and decode the segments,
\* check the header's alg against the allowed list, check the signature,
\* parse the payload, then the exp claim (expired when exp < now).  Every
\* failure is a JWTError; the exp failure is its subclass
\* ExpiredSignatureError.
decode_access_token(token, t) ==
    IF token.form = "segments" THEN Raised("JWTError", "Not enough segments")
    ELSE IF token.form = "header" THEN Raised("JWTError", "Invalid header string")
    ELSE IF token.header.alg /= ALGORITHM
    THEN Raised("JWTError", "The specified alg value is not allowed")
    ELSE IF token.signature /= JwtSign(SECRET_KEY, SigningInput(token))
    THEN Raised("JWTError", "Signature verification failed.")
    ELSE IF token.form = "payload" THEN Raised("JWTError", "Invalid payload string")
    ELSE IF token.payload.exp < t
    THEN Raised("ExpiredSignatureError", "Signature has expired.")
    ELSE Decoded(token.payload)

(***************************************************************************)
(* User store (db/models/user.py, db/repositories)                         *)
(***************************************************************************)

\* Primary keys are positions in the users table; 0 stands for "no row".
NoUser == 0
UserIds == 1..Len(users)

\* Ids a caller may present: every row that can exist and one that cannot.
SubjectIds == 1..(Cardinality(Emails) + 1)

\* str(uuid) and UUID(str) for primary keys.
UuidStr(id) == ToString(id)
ParseUuid(s) == IF \E i \in SubjectIds : UuidStr(i) = s
                THEN CHOOSE i \in SubjectIds : UuidStr(i) = s
                ELSE NoUser

\* Python truthiness of an Optional[str].
Truthy(s) == s /= None /\ s /= ""

\* BaseRepository.get
get(table, id) == IF id \in 1..Len(table) THEN id ELSE NoUser

\* UserRepository.get_by_email
get_by_email(table, email) ==
    IF \E i \in 1..Len(table) : table[i].email = email
    THEN CHOOSE i \in 1..Len(table) : table[i].email = email
    ELSE NoUser

\* get_active_by_email without the is_active filter.
get_active_by_email_any(table, email) ==
    IF \E i \in 1..Len(table) : table[i].email = email
    THEN CHOOSE i \in 1..Len(table) : table[i].email = email
    ELSE NoUser

\* UserRepository.get_active_by_email
get_active_by_email(table, email) ==
    IF \E i \in 1..Len(table) : table[i].email = email /\ table[i].is_active
    THEN CHOOSE i \in 1..Len(table) : table[i].email = email /\ table[i].is_active
    ELSE NoUser

\* email_exists answering for the first row only.
email_exists_first(table, email) == Len(table) > 0 /\ table[1].email = email

\* UserRepository.email_exists
email_exists(table, email) == get_by_email(table, email) /= NoUser

\* get_by_oauth with provider and oauth_id compared to the wrong columns.
OAuthMatches_swapped(table, provider, oauth_id) ==
    {i \in 1..Len(table) : table[i].oauth_provider = oauth_id
                           /\ table[i].oauth_id = provider}

\* Rows matching the WHERE clause of UserRepository.get_by_oauth.
OAuthMatches(table, provider, oauth_id) ==
    {i \in 1..Len(table) : table[i].oauth_provider = provider
                           /\ table[i].oauth_id = oauth_id}

\* UserRepository.get_by_oauth (scalar_one_or_none).
get_by_oauth(table, provider, oauth_id) ==
    IF OAuthMatches(table, provider, oauth_id) = {}
    THEN NoUser
    ELSE CHOOSE i \in OAuthMatches(table, provider, oauth_id) : TRUE

\* The liveness check without the is_active test.
IsLive_exists(table, user) == user /= NoUser

\* "not user or not user.is_active" of AuthService, negated.
IsLive(table, user) == user /= NoUser /\ table[user].is_active

\* The password check left out of unlink_oauth_account.
HasPassword_always(row) == TRUE

\* "not user.hashed_password" of unlink_oauth_account, negated.
HasPassword(row) == row.hashed_password /= NoHash

\* The collision check left out of link_oauth_account.
LinkedElsewhere_never(table, user_id, provider, oauth_id) == FALSE

\* The collision check with its id comparison inverted.
LinkedElsewhere_self(table, user_id, provider, oauth_id) ==
    LET existing_user == get_by_oauth(table, provider, oauth_id)
    IN  existing_user /= NoUser /\ UuidStr(existing_user) = user_id

\* "existing_user and str(existing_user.id) != user_id" of link_oauth_account.
LinkedElsewhere(table, user_id, provider, oauth_id) ==
    LET existing_user == get_by_oauth(table, provider, oauth_id)
    IN  existing_user /= NoUser /\ UuidStr(existing_user) /= user_id

\* UserOut.model_validate: the columns exposed to callers.
UserOut(table, id) ==
    [id |-> id,
     email |-> table[id].email,
     full_name |-> table[id].full_name,
     is_active |-> table[id].is_active,
     is_superuser |-> table[id].is_superuser,
     oauth_provider |-> table[id].oauth_provider,
     oauth_id |-> table[id].oauth_id,
     avatar_url |-> table[id].avatar_url]

\* Outcome of the last handler: operation, arguments, result.
Result(op, args, outcome, uid, user, token) ==
    [op |-> op, args |-> args, outcome |-> outcome, uid |-> uid,
     user |-> user, token |-> token, extra |-> <<>>]

NoResult == Result("init", NoArgs, "ok", NoUser, <<>>, <<>>)

\* Primary keys uuid4 can draw for tasks and for tags.
TaskUuids == {"k1", "k2"}
TagUuids == {"g1", "g2"}

\* Callback requests the server works on at a time, and a request slot
\* with none in it.
Callers == {"r1", "r2"}
Idle == [pc |-> "idle", user_id |-> None, info |-> <<>>, unseen |-> FALSE,
         raced |-> FALSE, result |-> <<>>]

Init ==
    /\ users = <<>>
    /\ chosen = <<>>
    /\ last = NoResult
    /\ now = 0
    /\ inflight = [c \in Callers |-> Idle]
    /\ tasks = [k \in TaskUuids |-> <<>>]
    /\ tags = [g \in TagUuids |-> <<>>]

(***************************************************************************)
(* UserService                                                             *)
(***************************************************************************)

\* UserService.create_user (POST /auth/register)
create_user(email, password, full_name, salt) ==
    IF email_exists(users, email)
    THEN /\ last' = Result("register", [email |-> email], "EmailAlreadyRegistered", NoUser, <<>>, <<>>)
         /\ UNCHANGED <<tasks, tags, inflight, users, chosen, now>>
    ELSE LET row == [email |-> email,
                     hashed_password |-> get_password_hash(password, salt),
                     full_name |-> full_name,
                     is_active |-> TRUE,
                     is_superuser |-> FALSE,
                     oauth_provider |-> None,
                     oauth_id |-> None,
                     avatar_url |-> None]
             table == Append(users, row)
         IN /\ users' = table
            /\ chosen' = Append(chosen, <<password>>)
            /\ last' = Result("register", [email |-> email], "ok", Len(table),
                              <<UserOut(table, Len(table))>>, <<>>)
            /\ UNCHANGED <<tasks, tags, inflight, now>>

\* UserService.update_user (PUT /users/me); update_data is the
\* exclude_unset dump of UserUpdate: <<>> or <<full_name>>.
update_user(user_id, update_data) ==
    LET user == get(users, user_id)
    IN
    IF user = NoUser
    THEN /\ last' = Result("update_user", NoArgs, "null", NoUser, <<>>, <<>>)
         /\ UNCHANGED <<tasks, tags, inflight, users, chosen, now>>
    ELSE LET table == IF update_data = <<>> THEN users
                      ELSE [users EXCEPT ![user].full_name = update_data[1]]
         IN /\ users' = table
            /\ last' = Result("update_user", NoArgs, "ok", user, <<UserOut(table, user)>>, <<>>)
            /\ UNCHANGED <<tasks, tags, inflight, chosen, now>>

\* UserService.change_password (PUT /users/me/password)
change_password(user_id, current_password, new_password, salt) ==
    LET user == get(users, user_id)
    IN
    IF user = NoUser
    THEN /\ last' = Result("change_password", NoArgs, "false", NoUser, <<>>, <<>>)
         /\ UNCHANGED <<tasks, tags, inflight, users, chosen, now>>
    \* (a stored hash is None or came from get_password_hash: nothing raised)
    ELSE IF ~verify_password(current_password, users[user].hashed_password).value
    THEN /\ last' = Result("change_password", NoArgs, "false", user, <<>>, <<>>)
         /\ UNCHANGED <<tasks, tags, inflight, users, chosen, now>>
    ELSE /\ users' = [users EXCEPT ![user].hashed_password =
                                       get_password_hash(new_password, salt)]
         /\ chosen' = [chosen EXCEPT ![user] = <<new_password>>]
         /\ last' = Result("change_password", NoArgs, "true", user, <<>>, <<>>)
         /\ UNCHANGED <<tasks, tags, inflight, now>>

\* UserRepository.deactivate_user / activate_user
set_active(op, user_id, flag) ==
    LET user == get(users, user_id)
    IN
    IF user = NoUser
    THEN /\ last' = Result(op, NoArgs, "false", NoUser, <<>>, <<>>)
         /\ UNCHANGED <<tasks, tags, inflight, users, chosen, now>>
    ELSE /\ users' = [users EXCEPT ![user].is_active = flag]
         /\ last' = Result(op, NoArgs, "true", user, <<>>, <<>>)
         /\ UNCHANGED <<tasks, tags, inflight, chosen, now>>

\* UserService.deactivate_user
deactivate_user(user_id) == set_active("deactivate_user", user_id, FALSE)

\* UserService.activate_user
activate_user(user_id) == set_active("activate_user", user_id, TRUE)

\* UserService.delete_user (DELETE /users/me): soft delete.
delete_user(user_id) == set_active("delete_user", user_id, FALSE)

(***************************************************************************)
(* OAuth2Service: identity reconciliation                                  *)
(***************************************************************************)

\* OAuth2UserInfo values the flow engine can hand to the reconciler.
OAuth2UserInfo ==
    {info \in [id : OAuthIds, email : Emails, name : Names, picture : Pictures,
               provider : Providers] :
        <<info.provider, info.id>> \in OAuthIdentities}

\* create_oauth_user dropping the provider column.
OAuthUserRow_unlinked(email, full_name, oauth_provider, oauth_id, avatar_url) ==
    [email |-> email,
     hashed_password |-> NoHash,
     full_name |-> full_name,
     is_active |-> TRUE,
     is_superuser |-> FALSE,
     oauth_provider |-> None,
     oauth_id |-> oauth_id,
     avatar_url |-> avatar_url]

\* The row written by UserRepository.create_oauth_user.
OAuthUserRow(email, full_name, oauth_provider, oauth_id, avatar_url) ==
    [email |-> email,
     hashed_password |-> NoHash,
     full_name |-> full_name,
     is_active |-> TRUE,
     is_superuser |-> FALSE,
     oauth_provider |-> oauth_provider,
     oauth_id |-> oauth_id,
     avatar_url |-> avatar_url]

\* Linking that assigns the picture without testing it.
SetOAuthFields_overwrite(table, user, info) ==
    [table EXCEPT ![user].oauth_provider = info.provider,
                  ![user].oauth_id = info.id,
                  ![user].avatar_url = info.picture]

\* The assignments both linking paths make to a user row.
SetOAuthFields(table, user, info) ==
    [table EXCEPT ![user].oauth_provider = info.provider,
                  ![user].oauth_id = info.id,
                  ![user].avatar_url = IF Truthy(info.picture) THEN info.picture
                                       ELSE table[user].avatar_url]

\* Token issuing behind the active-flag gate of password login.
SessionToken_active_only(table, user, t) ==
    IF table[user].is_active
    THEN <<create_access_token(UuidStr(user), NoDelta, t)>>
    ELSE <<>>

\* "access_token = create_access_token(subject=str(user.id))" of
\* authenticate_or_create_user: no look at the row before issuing.
SessionToken(table, user, t) == <<create_access_token(UuidStr(user), NoDelta, t)>>

\* OAuth2Service.authenticate_or_create_user (POST /oauth/callback after the
\* provider round trips): find by provider id, else link by email, else
\* create; then issue a session token.
authenticate_or_create_user(info) ==
    LET found == get_by_oauth(users, info.provider, info.id)
        by_email == IF found = NoUser /\ Truthy(info.email)
                    THEN get_by_email(users, info.email) ELSE NoUser
        issue(table, user, how) ==
            /\ users' = table
            /\ chosen' = IF how = "created" THEN Append(chosen, <<>>) ELSE chosen
            /\ last' = Result("oauth_login", info, how, user, <<UserOut(table, user)>>,
                              SessionToken(table, user, now))
            /\ UNCHANGED <<tasks, tags, inflight, now>>
    IN
    IF Cardinality(OAuthMatches(users, info.provider, info.id)) > 1
    THEN \* scalar_one_or_none raises MultipleResultsFound
         /\ last' = Result("oauth_login", info, "MultipleResultsFound", NoUser, <<>>, <<>>)
         /\ UNCHANGED <<tasks, tags, inflight, users, chosen, now>>
    ELSE IF found /= NoUser
    THEN issue(users, found, "found")
    ELSE IF by_email /= NoUser
    THEN issue(SetOAuthFields(users, by_email, info), by_email, "linked")
    ELSE IF email_exists(users, info.email)
    THEN \* the unique index on users.email rejects the INSERT
         /\ last' = Result("oauth_login", info, "IntegrityError", NoUser, <<>>, <<>>)
         /\ UNCHANGED <<tasks, tags, inflight, users, chosen, now>>
    ELSE LET table == Append(users, OAuthUserRow(info.email, info.name, info.provider,
                                                 info.id, info.picture))
         IN issue(table, Len(table), "created")

\* OAuth2Service.link_oauth_account (POST /oauth/link after the provider
\* round trips); user_id is the str() of the caller's primary key.
link_oauth_account(user_id, info) ==
    LET args == [user_id |-> user_id, provider |-> info.provider, id |-> info.id,
                 picture |-> info.picture]
        user == get(users, ParseUuid(user_id))
        fail(kind) ==
            /\ last' = Result("link", args, kind, user, <<>>, <<>>)
            /\ UNCHANGED <<tasks, tags, inflight, users, chosen, now>>
    IN
    IF user = NoUser
    THEN fail("UserNotFound")
    ELSE IF Cardinality(OAuthMatches(users, info.provider, info.id)) > 1
    THEN fail("MultipleResultsFound")
    ELSE IF LinkedElsewhere(users, user_id, info.provider, info.id)
    THEN fail("AlreadyLinkedElsewhere")
    ELSE LET table == SetOAuthFields(users, user, info)
         IN /\ users' = table
            /\ last' = Result("link", args, "ok", user, <<UserOut(table, user)>>, <<>>)
            /\ UNCHANGED <<tasks, tags, inflight, chosen, now>>

\* unlink_oauth_account looking at the password before the provider.
unlink_oauth_account_password_first(user_id, provider) ==
    LET args == [user_id |-> user_id, provider |-> provider]
        user == get(users, ParseUuid(user_id))
        fail(kind) ==
            /\ last' = Result("unlink", args, kind, user, <<>>, <<>>)
            /\ UNCHANGED <<tasks, tags, inflight, users, chosen, now>>
    IN
    IF user = NoUser
    THEN fail("UserNotFound")
    ELSE IF ~HasPassword(users[user])
    THEN fail("NoPasswordSet")
    ELSE IF users[user].oauth_provider /= provider
    THEN fail("ProviderNotLinked")
    ELSE LET table == [users EXCEPT ![user].oauth_provider = None,
                                    ![user].oauth_id = None]
         IN /\ users' = table
            /\ last' = Result("unlink", args, "ok", user, <<UserOut(table, user)>>, <<>>)
            /\ UNCHANGED <<tasks, tags, inflight, chosen, now>>

\* OAuth2Service.unlink_oauth_account (POST /oauth/unlink)
unlink_oauth_account(user_id, provider) ==
    LET args == [user_id |-> user_id, provider |-> provider]
        user == get(users, ParseUuid(user_id))
        fail(kind) ==
            /\ last' = Result("unlink", args, kind, user, <<>>, <<>>)
            /\ UNCHANGED <<tasks, tags, inflight, users, chosen, now>>
    IN
    IF user = NoUser
    THEN fail("UserNotFound")
    ELSE IF users[user].oauth_provider /= provider
    THEN fail("ProviderNotLinked")
    ELSE IF ~HasPassword(users[user])
    THEN fail("NoPasswordSet")
    ELSE LET table == [users EXCEPT ![user].oauth_provider = None,
                                    ![user].oauth_id = None]
         IN /\ users' = table
            /\ last' = Result("unlink", args, "ok", user, <<UserOut(table, user)>>, <<>>)
            /\ UNCHANGED <<tasks, tags, inflight, chosen, now>>

(***************************************************************************)
(* AuthService and the /auth routes                                        *)
(***************************************************************************)

\* AuthService.authenticate_user
authenticate_user(email, password) ==
    LET user == get_active_by_email(users, email)
    IN  IF user = NoUser THEN NoUser
        \* (a stored hash is None or came from get_password_hash: nothing raised)
        ELSE IF ~verify_password(password, users[user].hashed_password).value
        THEN NoUser
        ELSE user

\* The response of POST /auth/login when AuthService.login returns None.
LoginRejected == [status |-> 401, detail |-> "Incorrect email or password"]

\* AuthService.login behind POST /auth/login
login(email, password) ==
    LET args == [email |-> email, password |-> password]
        user == authenticate_user(email, password)
    IN
    /\ IF user = NoUser
       THEN last' = [Result("login", args, "null", NoUser, <<>>, <<>>)
                        EXCEPT !.extra = <<LoginRejected>>]
       ELSE last' = [Result("login", args, "ok", user, <<UserOut(users, user)>>,
                            <<create_access_token(UuidStr(user), NoDelta, now)>>)
                        EXCEPT !.extra = <<[status |-> 200, detail |-> ""]>>]
    /\ UNCHANGED <<tasks, tags, inflight, users, chosen, now>>

\* AuthService.get_current_user
get_current_user(user_id) ==
    LET args == [user_id |-> user_id]
        user == get(users, user_id)
    IN
    /\ IF ~IsLive(users, user)
       THEN last' = Result("current_user", args, "null", NoUser, <<>>, <<>>)
       ELSE last' = Result("current_user", args, "ok", user, <<UserOut(users, user)>>, <<>>)
    /\ UNCHANGED <<tasks, tags, inflight, users, chosen, now>>

\* AuthService.refresh_token
refresh_token(user_id) ==
    LET args == [user_id |-> user_id]
        user == get(users, user_id)
    IN
    /\ IF ~IsLive(users, user)
       THEN last' = Result("refresh", args, "null", NoUser, <<>>, <<>>)
       ELSE last' = Result("refresh", args, "ok", user, <<>>,
                           <<create_access_token(UuidStr(user_id), NoDelta, now)>>)
    /\ UNCHANGED <<tasks, tags, inflight, users, chosen, now>>

(***************************************************************************)
(* Token service on its own: issue, then verify at once, as time passes    *)
(***************************************************************************)

\* Subjects handed to create_access_token.
Subjects == {UuidStr(i) : i \in SubjectIds} \cup {"test-user-123"}

\* expires_delta arguments, in seconds.
Deltas == {NoDelta, <<0>>, <<60>>, <<-1>>}

\* Half a default time-to-live.
ClockStep == (ACCESS_TOKEN_EXPIRE_MINUTES * 60) \div 2

\* Time passes.
Tick ==
    /\ now + ClockStep <= MaxTicks * ClockStep
    /\ now' = now + ClockStep
    /\ UNCHANGED <<tasks, tags, inflight, users, chosen, last>>

\* create_access_token followed at once by decode_access_token.
IssueAndVerify(subject, expires_delta) ==
    LET token == create_access_token(subject, expires_delta, now)
        args == [subject |-> subject, expires_delta |-> expires_delta, at |-> now]
    IN
    /\ last' = [Result("issue_verify", args, "ok", NoUser, <<>>, <<token>>)
                   EXCEPT !.extra = <<decode_access_token(token, now)>>]
    /\ UNCHANGED <<tasks, tags, inflight, users, chosen, now>>

\* Instants at which a token presented at time t can have been issued.
IssueTimes(t) == {k * ClockStep : k \in 0..MaxTicks} \cap 0..t

\* Tokens the service has handed out by time t, for the first account and
\* for a subject that is no account id.
IssuedTokens(t) ==
    {create_access_token(s, d, t0) :
        s \in {UuidStr(1), "test-user-123"}, d \in Deltas, t0 \in IssueTimes(t)}

\* A token whose signature segment was replaced (signed with another key).
AlterSignature(token) ==
    [token EXCEPT !.signature = JwtSign("another-key", SigningInput(token))]

\* A token whose payload segment was overwritten with x's, as in
\* test_decode_tampered_token: the old signature stays.
AlterPayload(token) == [token EXCEPT !.form = "payload"]

\* A token whose payload was edited to expire later; the old signature stays.
ExtendExpiry(token) ==
    [token EXCEPT !.payload.exp = @ + ACCESS_TOKEN_EXPIRE_MINUTES * 60]

\* A token re-issued with alg "none" and no signature.
AlgNone(token) == [token EXCEPT !.header.alg = "none", !.signature = <<>>]

\* A payload that is no JSON object, signed with the process's own key.
SignedGarbage(token) ==
    LET unsigned == [token EXCEPT !.form = "payload"]
    IN  [unsigned EXCEPT !.signature = JwtSign(SECRET_KEY, SigningInput(unsigned))]

\* Strings that are no JWT: "invalid" and "invalid.jwt.token".
GarbageToken(form) ==
    [form |-> form,
     header |-> [alg |-> None, typ |-> None],
     payload |-> [exp |-> 0, iat |-> 0, sub |-> None, type |-> None],
     signature |-> <<>>]

\* Everything a caller can present to decode_access_token at time t.
PresentedTokens(t) ==
    IssuedTokens(t)
    \cup {AlterSignature(k) : k \in IssuedTokens(t)}
    \cup {AlterPayload(k) : k \in IssuedTokens(t)}
    \cup {ExtendExpiry(k) : k \in IssuedTokens(t)}
    \cup {AlgNone(k) : k \in IssuedTokens(t)}
    \cup {SignedGarbage(k) : k \in IssuedTokens(t)}
    \cup {GarbageToken("segments"), GarbageToken("header")}

\* decode_access_token on a presented token, some time after it was issued.
VerifyToken(token) ==
    LET decoded == decode_access_token(token, now)
    IN
    /\ last' = [Result("verify", [at |-> now],
                       IF decoded.ok THEN "ok" ELSE decoded.error,
                       NoUser, <<>>, <<token>>)
                   EXCEPT !.extra = <<decoded>>]
    /\ UNCHANGED <<tasks, tags, inflight, users, chosen, now>>

\* get_password_hash(q) called twice (bcrypt draws a fresh salt for each
\* call), then verify_password(p, .) on both credentials.
HashTwiceAndVerify(p, q, salt, salt_again) ==
    LET first == get_password_hash(q, salt)
        second == get_password_hash(q, salt_again)
    IN
    /\ salt /= salt_again
    /\ last' = [Result("hash_verify", [p |-> p, q |-> q], "ok", NoUser, <<>>, <<>>)
                   EXCEPT !.extra = <<[first |-> first, second |-> second,
                                       verified |-> verify_password(p, first),
                                       verified_again |-> verify_password(p, second)]>>]
    /\ UNCHANGED <<tasks, tags, inflight, users, chosen, now>>

\* Stored credentials verify_password can be handed: none, a hash of a
\* password, or a string that is no hash.
StoredCredentials ==
    {NoHash} \cup {get_password_hash(p, s) : p \in Passwords, s \in Salts}
             \cup MalformedHashes

\* verify_password on a password and a stored credential.
VerifyStored(password, stored) ==
    LET verified == verify_password(password, stored)
    IN
    /\ last' = [Result("verify_password", [password |-> password, stored |-> stored],
                       IF verified.raised THEN verified.error ELSE "ok",
                       NoUser, <<>>, <<>>)
                   EXCEPT !.extra = <<verified>>]
    /\ UNCHANGED <<tasks, tags, inflight, users, chosen, now>>

(***************************************************************************)
(* The bearer-token dependency of protected routes (api/dependencies)      *)
(***************************************************************************)

\* The Authorization header as HTTPBearer(auto_error=False) hands it over:
\* <<>> when there is none (or it is no Bearer header), else <<token>>.
NoCredentials == <<>>

\* str -> UUID succeeds exactly on the str() of a primary key.
IsUuid(s) == \E i \in SubjectIds : UuidStr(i) = s

\* credentials_exception
Unauthenticated ==
    [status |-> 401, detail |-> "Could not validate credentials",
     headers |-> "WWW-Authenticate: Bearer"]

\* The dependency with HTTPBearer left at auto_error=True: a request without
\* credentials is answered 403 by the security scheme itself.
deps_get_current_user_auto_error(table, credentials, t) ==
    LET refused == [ok |-> FALSE, user |-> NoUser, response |-> <<Unauthenticated>>]
        decoded == decode_access_token(credentials[1], t)
        user_id == decoded.payload[1].sub
    IN  IF credentials = NoCredentials
        THEN [ok |-> FALSE, user |-> NoUser,
              response |-> <<[status |-> 403, detail |-> "Not authenticated",
                              headers |-> ""]>>]
        ELSE IF ~decoded.ok THEN refused
        ELSE IF user_id = None THEN refused
        ELSE IF ~IsUuid(user_id) THEN refused
        ELSE IF ~IsLive(table, get(table, ParseUuid(user_id))) THEN refused
        ELSE [ok |-> TRUE, user |-> ParseUuid(user_id), response |-> <<>>]

\* get_current_user of api/dependencies/auth.py: every failure raises the
\* one credentials_exception.
deps_get_current_user(table, credentials, t) ==
    LET refused == [ok |-> FALSE, user |-> NoUser, response |-> <<Unauthenticated>>]
        decoded == decode_access_token(credentials[1], t)
        user_id == decoded.payload[1].sub
    IN  IF credentials = NoCredentials THEN refused
        ELSE IF ~decoded.ok THEN refused
        ELSE IF user_id = None THEN refused
        ELSE IF ~IsUuid(user_id) THEN refused
        ELSE IF ~IsLive(table, get(table, ParseUuid(user_id))) THEN refused
        ELSE [ok |-> TRUE, user |-> ParseUuid(user_id), response |-> <<>>]

\* A token signed with the process's key that carries no sub claim.
TokenWithoutSubject(t) ==
    JwtEncode([exp |-> t + ACCESS_TOKEN_EXPIRE_MINUTES * 60, iat |-> t,
               sub |-> None, type |-> "access"], SECRET_KEY, ALGORITHM)

\* Authorization headers a client can send at time t: none, a token of the
\* service for any subject (fresh or expired), a forged or garbled one, one
\* without a subject.
BearerCredentials(t) ==
    {NoCredentials}
    \cup {<<create_access_token(s, d, t)>> : s \in Subjects, d \in {NoDelta, <<-1>>}}
    \cup {<<AlterSignature(create_access_token(UuidStr(1), NoDelta, t))>>,
          <<GarbageToken("header")>>,
          <<TokenWithoutSubject(t)>>}

\* POST /auth/refresh: the dependency, then AuthService.refresh_token for
\* the user it resolved (who is still active: one request, one transaction).
refresh_token_route(credentials) ==
    LET args == [credentials |-> credentials, at |-> now]
        auth == deps_get_current_user(users, credentials, now)
    IN
    /\ IF ~auth.ok
       THEN last' = [Result("refresh_route", args, "401", NoUser, <<>>, <<>>)
                        EXCEPT !.extra = auth.response]
       ELSE last' = [Result("refresh_route", args, "ok", auth.user, <<>>,
                            <<create_access_token(UuidStr(auth.user), NoDelta, now)>>)
                        EXCEPT !.extra = <<[status |-> 200, detail |-> "",
                                            headers |-> ""]>>]
    /\ UNCHANGED <<tasks, tags, inflight, users, chosen, now>>

(***************************************************************************)
(* OAuth2Service: provider registry and flow engine                        *)
(***************************************************************************)

\* OAuth2Service.PROVIDER_CONFIG
PROVIDER_CONFIG ==
    [p \in {GOOGLE, GITHUB, MICROSOFT} |->
        CASE p = GOOGLE ->
               [authorize_url |-> "https://accounts.google.com/o/oauth2/v2/auth",
                access_token_url |-> "https://oauth2.googleapis.com/token",
                userinfo_url |-> "https://www.googleapis.com/oauth2/v2/userinfo",
                scope |-> "openid email profile",
                client_id_key |-> "GOOGLE_CLIENT_ID",
                client_secret_key |-> "GOOGLE_CLIENT_SECRET",
                redirect_uri_key |-> "GOOGLE_REDIRECT_URI"]
          [] p = GITHUB ->
               [authorize_url |-> "https://github.com/login/oauth/authorize",
                access_token_url |-> "https://github.com/login/oauth/access_token",
                userinfo_url |-> "https://api.github.com/user",
                scope |-> "user:email",
                client_id_key |-> "GITHUB_CLIENT_ID",
                client_secret_key |-> "GITHUB_CLIENT_SECRET",
                redirect_uri_key |-> "GITHUB_REDIRECT_URI"]
          [] p = MICROSOFT ->
               [authorize_url |-> "https://login.microsoftonline.com/common/oauth2/v2.0/authorize",
                access_token_url |-> "https://login.microsoftonline.com/common/oauth2/v2.0/token",
                userinfo_url |-> "https://graph.microsoft.com/v1.0/me",
                scope |-> "openid email profile",
                client_id_key |-> "MICROSOFT_CLIENT_ID",
                client_secret_key |-> "MICROSOFT_CLIENT_SECRET",
                redirect_uri_key |-> "MICROSOFT_REDIRECT_URI"]]

\* The email-list endpoint of the provider that may omit the email.
GITHUB_EMAILS_URL == "https://api.github.com/user/emails"

\* The OAuth2 part of Settings: client ids and secrets as the environment
\* sets them ("" by default), redirect URIs at their defaults.
MakeSettings(enabled, google, github, microsoft) ==
    [OAUTH2_ENABLED |-> enabled,
     GOOGLE_CLIENT_ID |-> google[1],
     GOOGLE_CLIENT_SECRET |-> google[2],
     GOOGLE_REDIRECT_URI |-> "http://localhost:4200/auth/callback/google",
     GITHUB_CLIENT_ID |-> github[1],
     GITHUB_CLIENT_SECRET |-> github[2],
     GITHUB_REDIRECT_URI |-> "http://localhost:4200/auth/callback/github",
     MICROSOFT_CLIENT_ID |-> microsoft[1],
     MICROSOFT_CLIENT_SECRET |-> microsoft[2],
     MICROSOFT_REDIRECT_URI |-> "http://localhost:4200/auth/callback/microsoft"]

\* Deployments: every provider configured; one provider lacking its secret
\* or its id; nothing configured (the defaults); OAuth2 switched off.
ConfiguredSettings ==
    MakeSettings(TRUE, <<"g-id", "g-secret">>, <<"h-id", "h-secret">>, <<"m-id", "m-secret">>)
GithubWithoutSecret ==
    MakeSettings(TRUE, <<"g-id", "g-secret">>, <<"h-id", "">>, <<"m-id", "m-secret">>)
GoogleWithoutId ==
    MakeSettings(TRUE, <<"", "g-secret">>, <<"h-id", "h-secret">>, <<"m-id", "m-secret">>)
DefaultSettings ==
    MakeSettings(TRUE, <<"", "">>, <<"", "">>, <<"", "">>)
DisabledSettings ==
    MakeSettings(FALSE, <<"g-id", "g-secret">>, <<"h-id", "h-secret">>, <<"m-id", "m-secret">>)
SettingsSpace ==
    {ConfiguredSettings, GithubWithoutSecret, GoogleWithoutId, DefaultSettings,
     DisabledSettings}

\* The deployments that differ for the engine, which never reads
\* OAUTH2_ENABLED (the routes do).
EngineSettings == SettingsSpace \ {DisabledSettings}

\* What an engine operation returns or raises, with the outbound requests
\* it sent on the way.
Returned(value, calls) ==
    [ok |-> TRUE, error |-> "", detail |-> "", value |-> <<value>>, calls |-> calls]
Failed(error, detail, calls) ==
    [ok |-> FALSE, error |-> error, detail |-> detail, value |-> <<>>, calls |-> calls]

\* OAuth2Service._get_provider_config
get_provider_config(provider) ==
    IF provider \notin DOMAIN PROVIDER_CONFIG
    THEN Failed("ValueError", "Unsupported OAuth2 provider", <<>>)
    ELSE Returned(PROVIDER_CONFIG[provider], <<>>)

\* OAuth2Service._get_provider_credentials
get_provider_credentials(settings, provider) ==
    LET resolved == get_provider_config(provider)
        config == resolved.value[1]
        client_id == settings[config.client_id_key]
        client_secret == settings[config.client_secret_key]
        redirect_uri == settings[config.redirect_uri_key]
    IN  IF ~resolved.ok THEN resolved
        ELSE IF client_id = "" \/ client_secret = ""
        THEN Failed("ValueError", "OAuth2 credentials not configured", <<>>)
        ELSE Returned([client_id |-> client_id, client_secret |-> client_secret,
                       redirect_uri |-> redirect_uri], <<>>)

\* Percent-encoding of the strings that occur in authorization URLs; any
\* other string in play is made of unreserved characters only.
Escapes ==
    [v \in {"openid email profile", "user:email", "st/1",
            "http://localhost:4200/auth/callback/google",
            "http://localhost:4200/auth/callback/github",
            "http://localhost:4200/auth/callback/microsoft"} |->
        CASE v = "openid email profile" -> "openid+email+profile"
          [] v = "user:email" -> "user%3Aemail"
          [] v = "st/1" -> "st%2F1"
          [] v = "http://localhost:4200/auth/callback/google" ->
               "http%3A%2F%2Flocalhost%3A4200%2Fauth%2Fcallback%2Fgoogle"
          [] v = "http://localhost:4200/auth/callback/github" ->
               "http%3A%2F%2Flocalhost%3A4200%2Fauth%2Fcallback%2Fgithub"
          [] v = "http://localhost:4200/auth/callback/microsoft" ->
               "http%3A%2F%2Flocalhost%3A4200%2Fauth%2Fcallback%2Fmicrosoft"]

\* urllib.parse.quote_plus and urlencode over an ordered dict of parameters.
quote_plus(v) == IF v \in DOMAIN Escapes THEN Escapes[v] ELSE v
urlencode(params) ==
    [i \in 1..Len(params) |-> <<quote_plus(params[i][1]), quote_plus(params[i][2])>>]

\* get_authorization_url adding response_mode for every provider.
get_authorization_url_generic(settings, provider, state, fresh) ==
    LET resolved == get_provider_config(provider)
        config == resolved.value[1]
        credentials == get_provider_credentials(settings, provider)
        s == IF Truthy(state) THEN state ELSE fresh
        params == <<<<"client_id", credentials.value[1].client_id>>,
                    <<"redirect_uri", credentials.value[1].redirect_uri>>,
                    <<"response_type", "code">>,
                    <<"scope", config.scope>>,
                    <<"state", s>>,
                    <<"response_mode", "query">>>>
    IN  IF ~resolved.ok THEN resolved
        ELSE IF ~credentials.ok THEN credentials
        ELSE Returned([authorization_url |-> [base |-> config.authorize_url,
                                              query |-> urlencode(params)],
                       state |-> s], <<>>)

\* OAuth2Service.get_authorization_url; `fresh` is what
\* secrets.token_urlsafe(32) draws when no state is supplied.
get_authorization_url(settings, provider, state, fresh) ==
    LET resolved == get_provider_config(provider)
        config == resolved.value[1]
        credentials == get_provider_credentials(settings, provider)
        s == IF Truthy(state) THEN state ELSE fresh
        params == <<<<"client_id", credentials.value[1].client_id>>,
                    <<"redirect_uri", credentials.value[1].redirect_uri>>,
                    <<"response_type", "code">>,
                    <<"scope", config.scope>>,
                    <<"state", s>>>>
                  \o (IF provider = MICROSOFT
                      THEN <<<<"response_mode", "query">>>> ELSE <<>>)
    IN  IF ~resolved.ok THEN resolved
        ELSE IF ~credentials.ok THEN credentials
        ELSE Returned([authorization_url |-> [base |-> config.authorize_url,
                                              query |-> urlencode(params)],
                       state |-> s], <<>>)

\* An outbound HTTP request: a form POST or a GET with a bearer header.
HttpPost(url, data) == [method |-> "POST", url |-> url, bearer |-> None, data |-> <<data>>]
HttpGet(url, bearer) == [method |-> "GET", url |-> url, bearer |-> bearer, data |-> <<>>]

\* response.raise_for_status(): raises unless the status is a success (2xx).
IsSuccess(status) == status \in 200..299

\* exchange_code_for_token returning whatever body the endpoint sent,
\* without raise_for_status.
exchange_code_for_token_unchecked(settings, provider, code, redirect_uri, response) ==
    LET resolved == get_provider_config(provider)
        config == resolved.value[1]
        credentials == get_provider_credentials(settings, provider)
        data == [client_id |-> credentials.value[1].client_id,
                 client_secret |-> credentials.value[1].client_secret,
                 code |-> code,
                 grant_type |-> "authorization_code",
                 redirect_uri |-> IF Truthy(redirect_uri) THEN redirect_uri
                                  ELSE credentials.value[1].redirect_uri]
        call == HttpPost(config.access_token_url, data)
    IN  IF ~resolved.ok THEN resolved
        ELSE IF ~credentials.ok THEN credentials
        ELSE Returned(response.access_token, <<call>>)

\* OAuth2Service.exchange_code_for_token; `response` is what the provider's
\* token endpoint answers (access_token None: the body has no such key).
exchange_code_for_token(settings, provider, code, redirect_uri, response) ==
    LET resolved == get_provider_config(provider)
        config == resolved.value[1]
        credentials == get_provider_credentials(settings, provider)
        data == [client_id |-> credentials.value[1].client_id,
                 client_secret |-> credentials.value[1].client_secret,
                 code |-> code,
                 grant_type |-> "authorization_code",
                 redirect_uri |-> IF Truthy(redirect_uri) THEN redirect_uri
                                  ELSE credentials.value[1].redirect_uri]
        call == HttpPost(config.access_token_url, data)
    IN  IF ~resolved.ok THEN resolved
        ELSE IF ~credentials.ok THEN credentials
        ELSE IF ~IsSuccess(response.status)
        THEN Failed("HTTPStatusError", ToString(response.status), <<call>>)
        ELSE Returned(response.access_token, <<call>>)

\* Whether the httpx.AsyncClient can still send once its "async with"
\* block has been left: __aexit__ closes it.
ClientOpenAfterBlock == FALSE

\* AsyncClient.get: a closed client raises RuntimeError instead of sending.
HttpClientGet(client_open, request) ==
    IF client_open
    THEN [raised |-> FALSE, error |-> "", detail |-> "", calls |-> <<request>>]
    ELSE [raised |-> TRUE, error |-> "RuntimeError",
          detail |-> "Cannot send a request, as the client has been closed.",
          calls |-> <<>>]

\* next((e for e in emails if e.get("primary")), emails[0] if emails else None)
SelectPrimary(emails) ==
    IF \E i \in 1..Len(emails) : emails[i].primary
    THEN <<emails[CHOOSE i \in 1..Len(emails) :
                     /\ emails[i].primary
                     /\ \A j \in 1..(i - 1) : ~emails[j].primary]>>
    ELSE IF Len(emails) > 0 THEN <<emails[1]>>
    ELSE <<>>

\* OAuth2UserInfo(...): id and email are required strings.
ValidateUserInfo(info, calls) ==
    IF info.id = None THEN Failed("KeyError", "id", calls)
    ELSE IF info.email = None THEN Failed("ValidationError", "email", calls)
    ELSE Returned(info, calls)

\* OAuth2Service.get_user_info.  `response` is the user-info endpoint's
\* answer with the provider's JSON keys read by role (email: "email" or
\* "mail"; alt_email: "userPrincipalName"; name: "name" or "displayName";
\* picture: "picture" or "avatar_url"; None: key absent or null), and
\* `emails_response` the email-list endpoint's.
get_user_info(provider, access_token, response, emails_response) ==
    LET resolved == get_provider_config(provider)
        config == resolved.value[1]
        first == HttpGet(config.userinfo_url, access_token)
        second == HttpClientGet(ClientOpenAfterBlock,
                                HttpGet(GITHUB_EMAILS_URL, access_token))
        primary_email == SelectPrimary(emails_response.emails)
        listed == IF primary_email = <<>> THEN None ELSE primary_email[1].email
        info(email, picture, calls) ==
            ValidateUserInfo([id |-> response.id, email |-> email,
                              name |-> response.name, picture |-> picture,
                              provider |-> provider], calls)
    IN  IF ~resolved.ok THEN resolved
        ELSE IF ~IsSuccess(response.status)
        THEN Failed("HTTPStatusError", ToString(response.status), <<first>>)
        ELSE IF provider = GOOGLE
        THEN IF response.email = None /\ response.id /= None
             THEN Failed("KeyError", "email", <<first>>)
             ELSE info(response.email, response.picture, <<first>>)
        ELSE IF provider = GITHUB
        THEN IF Truthy(response.email)
             THEN info(response.email, response.picture, <<first>>)
             ELSE IF second.raised
             THEN Failed(second.error, second.detail, <<first>> \o second.calls)
             ELSE IF ~IsSuccess(emails_response.status)
             THEN Failed("HTTPStatusError", ToString(emails_response.status),
                         <<first>> \o second.calls)
             ELSE info(listed, response.picture, <<first>> \o second.calls)
        ELSE info(IF Truthy(response.email) THEN response.email
                  ELSE response.alt_email,
                  None, <<first>>)

\* Providers a request can name: the three supported ones and another.
FlowProviders == {GOOGLE, GITHUB, MICROSOFT, "gitlab"}

\* State values a caller passes (None: no state) and values
\* secrets.token_urlsafe draws.
CallerStates == {None, "", "st/1"}
FreshStates == {"fresh-1", "fresh-2"}

\* Answers of a provider's token endpoint.
TokenResponses ==
    {[status |-> 200, access_token |-> "ptok"],
     [status |-> 200, access_token |-> None],
     [status |-> 401, access_token |-> None],
     [status |-> 500, access_token |-> None]}

\* Answers of a provider's user-info endpoint.
UserInfoResponses ==
    {[status |-> 200, id |-> "x1", email |-> "a@x", alt_email |-> None,
      name |-> "n1", picture |-> None],
     [status |-> 200, id |-> "x1", email |-> None, alt_email |-> "b@x",
      name |-> None, picture |-> "picA"],
     [status |-> 200, id |-> None, email |-> "a@x", alt_email |-> None,
      name |-> None, picture |-> None],
     [status |-> 401, id |-> None, email |-> None, alt_email |-> None,
      name |-> None, picture |-> None]}

\* Answers of the email-list endpoint.
PrimaryListed ==
    [status |-> 200,
     emails |-> <<[email |-> "b@x", primary |-> FALSE],
                  [email |-> "a@x", primary |-> TRUE]>>]
EmailsResponses ==
    {PrimaryListed,
     [status |-> 200,
      emails |-> <<[email |-> "b@x", primary |-> FALSE],
                   [email |-> "a@x", primary |-> FALSE]>>],
     [status |-> 200, emails |-> <<>>],
     [status |-> 403, emails |-> <<>>]}

\* OAuth2Service.get_authorization_url called by a client of the engine.
GetAuthorizationUrl(settings, provider, state, fresh) ==
    LET args == [settings |-> settings, provider |-> provider, state |-> state,
                 fresh |-> fresh]
        r == get_authorization_url(settings, provider, state, fresh)
    IN
    /\ last' = [Result("authorization_url", args, IF r.ok THEN "ok" ELSE r.error,
                       NoUser, <<>>, <<>>)
                   EXCEPT !.extra = <<r>>]
    /\ UNCHANGED <<tasks, tags, inflight, users, chosen, now>>

\* OAuth2Service.exchange_code_for_token called by a client of the engine.
ExchangeCode(settings, provider, code, redirect_uri, response) ==
    LET args == [settings |-> settings, provider |-> provider, code |-> code,
                 redirect_uri |-> redirect_uri, response |-> response]
        r == exchange_code_for_token(settings, provider, code, redirect_uri, response)
    IN
    /\ last' = [Result("exchange_code", args, IF r.ok THEN "ok" ELSE r.error,
                       NoUser, <<>>, <<>>)
                   EXCEPT !.extra = <<r>>]
    /\ UNCHANGED <<tasks, tags, inflight, users, chosen, now>>

\* OAuth2Service.get_user_info called by a client of the engine, in a
\* process configured with `settings`.
GetUserInfo(settings, provider, access_token, response, emails_response) ==
    LET args == [settings |-> settings, provider |-> provider,
                 access_token |-> access_token, response |-> response,
                 emails_response |-> emails_response]
        r == get_user_info(provider, access_token, response, emails_response)
    IN
    /\ last' = [Result("fetch_user_info", args, IF r.ok THEN "ok" ELSE r.error,
                       NoUser, <<>>, <<>>)
                   EXCEPT !.extra = <<r>>]
    /\ UNCHANGED <<tasks, tags, inflight, users, chosen, now>>

\* The HTTP error a route turns an exception into: ValueError (and
\* pydantic's ValidationError, a ValueError) into 400, anything else 500.
RouteError(error) == IF error \in {"ValueError", "ValidationError"} THEN "400" ELSE "500"

\* POST /oauth/callback: exchange the code, fetch the user info, reconcile;
\* callback_request.state is not read.
oauth_callback(settings, provider, code, state, token_response, userinfo_response, emails_response) ==
    LET args == [settings |-> settings, provider |-> provider, code |-> code,
                 state |-> state, token_response |-> token_response,
                 userinfo_response |-> userinfo_response]
        exchanged == exchange_code_for_token(settings, provider, code, None,
                                             token_response)
        fetched == get_user_info(provider, exchanged.value[1], userinfo_response,
                                 emails_response)
        refuse(status, error, calls) ==
            /\ last' = [Result("oauth_callback", args, status, NoUser, <<>>, <<>>)
                           EXCEPT !.extra = <<[error |-> error, calls |-> calls]>>]
            /\ UNCHANGED <<tasks, tags, inflight, users, chosen, now>>
    IN
    IF ~settings.OAUTH2_ENABLED
    THEN refuse("501", "OAuth2 authentication is not enabled", <<>>)
    ELSE IF ~exchanged.ok
    THEN refuse(RouteError(exchanged.error), exchanged.error, exchanged.calls)
    ELSE IF ~fetched.ok
    THEN refuse(RouteError(fetched.error), fetched.error,
                exchanged.calls \o fetched.calls)
    ELSE authenticate_or_create_user(fetched.value[1])

(***************************************************************************)
(* authenticate_or_create_user, await by await, for concurrent requests    *)
(***************************************************************************)

\* A request in flight: between its first repository call and its return.
InFlight(c) == inflight[c].pc \in {"by_oauth", "by_email", "create"}

\* Two requests carry the same external identity.
SameIdentity(a, b) == a.provider = b.provider /\ a.id = b.id

\* POST /oauth/callback reaches authenticate_or_create_user with `info`
\* while the other request may be inside it.
ReconcileBegin(c, info) ==
    LET overlapping == {d \in Callers \ {c} :
                           InFlight(d) /\ SameIdentity(inflight[d].info[1], info)}
    IN
    /\ inflight[c].pc \in {"idle", "done"}
    /\ inflight' = [d \in Callers |->
          IF d = c
          THEN [pc |-> "by_oauth", user_id |-> None, info |-> <<info>>,
                unseen |-> OAuthMatches(users, info.provider, info.id) = {},
                raced |-> overlapping /= {}, result |-> <<>>]
          ELSE IF d \in overlapping THEN [inflight[d] EXCEPT !.raced = TRUE]
          ELSE inflight[d]]
    /\ UNCHANGED <<tasks, tags, users, chosen, last, now>>

\* The request returns (or raises): its outcome and the user it returns.
ReconcileReturn(c, table, how, user) ==
    /\ users' = table
    /\ chosen' = IF how = "created" THEN Append(chosen, <<>>) ELSE chosen
    /\ last' = IF user = NoUser
               THEN Result("oauth_login", inflight[c].info[1], how, NoUser, <<>>, <<>>)
               ELSE Result("oauth_login", inflight[c].info[1], how, user,
                           <<UserOut(table, user)>>, SessionToken(table, user, now))
    /\ inflight' = [inflight EXCEPT ![c].pc = "done",
                                    ![c].result = <<[outcome |-> how, uid |-> user]>>]
    /\ UNCHANGED <<tasks, tags, now>>

\* await self.user_repository.get_by_oauth(provider, id)
ReconcileByOAuth(c) ==
    /\ inflight[c].pc = "by_oauth"
    /\ LET info == inflight[c].info[1]
           found == get_by_oauth(users, info.provider, info.id)
       IN  IF Cardinality(OAuthMatches(users, info.provider, info.id)) > 1
           THEN ReconcileReturn(c, users, "MultipleResultsFound", NoUser)
           ELSE IF found /= NoUser
           THEN ReconcileReturn(c, users, "found", found)
           ELSE /\ inflight' = [inflight EXCEPT ![c].pc =
                                   IF Truthy(info.email) THEN "by_email" ELSE "create"]
                /\ UNCHANGED <<tasks, tags, users, chosen, last, now>>

\* await self.user_repository.get_by_email(email), and the link and commit
\* when it finds a row.
ReconcileByEmail(c) ==
    /\ inflight[c].pc = "by_email"
    /\ LET info == inflight[c].info[1]
           by_email == get_by_email(users, info.email)
       IN  IF by_email /= NoUser
           THEN ReconcileReturn(c, SetOAuthFields(users, by_email, info), "linked",
                                by_email)
           ELSE /\ inflight' = [inflight EXCEPT ![c].pc = "create"]
                /\ UNCHANGED <<tasks, tags, users, chosen, last, now>>

\* await self.user_repository.create_oauth_user(...): the INSERT is refused
\* by the unique index on users.email and by no other constraint; nothing
\* catches the IntegrityError.
ReconcileCreate(c) ==
    /\ inflight[c].pc = "create"
    /\ LET info == inflight[c].info[1]
           table == Append(users, OAuthUserRow(info.email, info.name, info.provider,
                                               info.id, info.picture))
       IN  IF email_exists(users, info.email)
           THEN ReconcileReturn(c, users, "IntegrityError", NoUser)
           ELSE ReconcileReturn(c, table, "created", Len(table))

\* What the provider reports in concurrent callbacks: two external ids,
\* each under either email.
(***************************************************************************)
(* link_oauth_account, await by await, for concurrent requests             *)
(***************************************************************************)

\* The request returns (or raises): its outcome and the user it linked.
LinkReturn(c, table, outcome) ==
    LET info == inflight[c].info[1]
        user == get(users, ParseUuid(inflight[c].user_id))
        args == [user_id |-> inflight[c].user_id, provider |-> info.provider,
                 id |-> info.id, picture |-> info.picture]
    IN
    /\ users' = table
    /\ last' = IF outcome = "ok"
               THEN Result("link", args, "ok", user, <<UserOut(table, user)>>, <<>>)
               ELSE Result("link", args, outcome, user, <<>>, <<>>)
    /\ inflight' = [inflight EXCEPT ![c].pc = "done",
                                    ![c].result = <<[outcome |-> outcome, uid |-> user]>>]
    /\ UNCHANGED <<tasks, tags, chosen, now>>

\* POST /oauth/link reaches link_oauth_account while the other request may
\* be inside it: await self.user_repository.get(UUID(user_id))
LinkBegin(c, user_id, info) ==
    LET overlapping == {d \in Callers \ {c} :
                           /\ inflight[d].pc \in {"link_check", "link_commit"}
                           /\ SameIdentity(inflight[d].info[1], info)}
        begun == [d \in Callers |->
                    IF d = c
                    THEN [pc |-> "link_check", user_id |-> user_id, info |-> <<info>>,
                          unseen |-> OAuthMatches(users, info.provider, info.id) = {},
                          raced |-> overlapping /= {}, result |-> <<>>]
                    ELSE IF d \in overlapping THEN [inflight[d] EXCEPT !.raced = TRUE]
                    ELSE inflight[d]]
    IN
    /\ inflight[c].pc \in {"idle", "done"}
    /\ IF get(users, ParseUuid(user_id)) = NoUser
       THEN /\ inflight' = [begun EXCEPT ![c].pc = "done",
                               ![c].result = <<[outcome |-> "UserNotFound",
                                                uid |-> NoUser]>>]
            /\ last' = Result("link", [user_id |-> user_id, provider |-> info.provider,
                                       id |-> info.id, picture |-> info.picture],
                              "UserNotFound", NoUser, <<>>, <<>>)
            /\ UNCHANGED <<tasks, tags, users, chosen, now>>
       ELSE /\ inflight' = begun
            /\ UNCHANGED <<tasks, tags, users, chosen, last, now>>

\* await self.user_repository.get_by_oauth(provider, id), and the refusal
\* when another user holds the pair.
LinkCheck(c) ==
    /\ inflight[c].pc = "link_check"
    /\ LET info == inflight[c].info[1]
       IN  IF Cardinality(OAuthMatches(users, info.provider, info.id)) > 1
           THEN LinkReturn(c, users, "MultipleResultsFound")
           ELSE IF LinkedElsewhere(users, inflight[c].user_id, info.provider, info.id)
           THEN LinkReturn(c, users, "AlreadyLinkedElsewhere")
           ELSE /\ inflight' = [inflight EXCEPT ![c].pc = "link_commit"]
                /\ UNCHANGED <<tasks, tags, users, chosen, last, now>>

\* The assignments and await self.db.commit(): no constraint of the users
\* table refuses a pair another row holds.
LinkCommit(c) ==
    /\ inflight[c].pc = "link_commit"
    /\ LinkReturn(c, SetOAuthFields(users, ParseUuid(inflight[c].user_id),
                                    inflight[c].info[1]), "ok")

(***************************************************************************)
(* Tasks and tags (TaskRepository, TaskService, TagRepository, TagService) *)
(***************************************************************************)

\* TaskStatus
PENDING == "pending"
IN_PROGRESS == "in_progress"
COMPLETED == "completed"
TaskStatus == {PENDING, IN_PROGRESS, COMPLETED}

\* Optional request fields and columns: <<>> is unset or None, <<v>> is v.
Unset == <<>>

\* TagOut.model_validate(tag)
TagOut(table, tag_id) ==
    [id |-> tag_id, name |-> table[tag_id][1].name, user_id |-> table[tag_id][1].user_id]

\* TaskOut.model_validate(task), with its tags loaded.
TaskOut(table, tagtable, task_id) ==
    [id |-> task_id, user_id |-> table[task_id][1].user_id,
     status |-> table[task_id][1].status,
     completed_at |-> table[task_id][1].completed_at,
     tags |-> {TagOut(tagtable, g) : g \in table[task_id][1].tags}]

\* What a task or tag handler returns: the records in its response.
Records(outs, tagouts) == [tasks |-> outs, tags |-> tagouts]
TaskResult(op, args, outcome, outs, tagouts) ==
    [Result(op, args, outcome, NoUser, <<>>, <<>>)
        EXCEPT !.extra = <<Records(outs, tagouts)>>]

\* TaskRepository.get_by_user (include_deleted=False) answering for any
\* user's task.
task_get_by_user_any(table, user_id, task_id) ==
    IF table[task_id] /= <<>> /\ ~table[task_id][1].is_deleted
    THEN <<task_id>> ELSE <<>>

\* TaskRepository.get_by_user (include_deleted=False)
task_get_by_user(table, user_id, task_id) ==
    IF /\ table[task_id] /= <<>>
       /\ table[task_id][1].user_id = user_id
       /\ ~table[task_id][1].is_deleted
    THEN <<task_id>> ELSE <<>>

\* TaskRepository.list_by_user without filters, one page holding them all.
task_list_by_user(table, user_id) ==
    {k \in TaskUuids : task_get_by_user(table, user_id, k) /= <<>>}

\* TaskRepository.associate_tags: the task's tags become those of tag_ids
\* that exist and belong to the task's owner.
associate_tags(table, tagtable, task_id, tag_ids) ==
    [table EXCEPT ![task_id][1].tags =
        {g \in tag_ids : /\ tagtable[g] /= <<>>
                         /\ tagtable[g][1].user_id = table[task_id][1].user_id}]

\* TaskService.create_task (POST /tasks); task_id is the key uuid4 draws.
create_task(user_id, task_id, status, tag_ids) ==
    LET args == [user_id |-> user_id, id |-> task_id, status |-> <<status>>,
                 tag_ids |-> <<tag_ids>>]
        row == [user_id |-> user_id, status |-> status, completed_at |-> <<>>,
                is_deleted |-> FALSE, tags |-> {}]
        created == [tasks EXCEPT ![task_id] = <<row>>]
        table == IF tag_ids /= {} THEN associate_tags(created, tags, task_id, tag_ids)
                 ELSE created
    IN
    /\ user_id \in UserIds
    /\ tasks[task_id] = <<>>
    /\ tasks' = table
    /\ last' = TaskResult("create_task", args, "ok", {TaskOut(table, tags, task_id)}, {})
    /\ UNCHANGED <<tags, inflight, users, chosen, now>>

\* TaskService.get_task (GET /tasks/{id})
get_task(task_id, user_id) ==
    LET args == [user_id |-> user_id, id |-> task_id]
        task == task_get_by_user(tasks, user_id, task_id)
    IN
    /\ last' = IF task = <<>> THEN TaskResult("get_task", args, "None", {}, {})
               ELSE TaskResult("get_task", args, "ok", {TaskOut(tasks, tags, task_id)}, {})
    /\ UNCHANGED <<tasks, tags, inflight, users, chosen, now>>

\* TaskService.list_tasks (GET /tasks)
list_tasks(user_id) ==
    /\ last' = TaskResult("list_tasks", [user_id |-> user_id], "ok",
                          {TaskOut(tasks, tags, k) : k \in task_list_by_user(tasks, user_id)},
                          {})
    /\ UNCHANGED <<tasks, tags, inflight, users, chosen, now>>

\* TaskService.update_task (PUT /tasks/{id}): the fields set in the request
\* are assigned as they come; tag_ids, when given, replace the task's tags.
update_task(task_id, user_id, status, tag_ids) ==
    LET args == [user_id |-> user_id, id |-> task_id, status |-> status,
                 tag_ids |-> tag_ids]
        task == task_get_by_user(tasks, user_id, task_id)
        assigned == IF status = Unset THEN tasks
                    ELSE [tasks EXCEPT ![task_id][1].status = status[1]]
        table == IF tag_ids = Unset THEN assigned
                 ELSE associate_tags(assigned, tags, task_id, tag_ids[1])
    IN
    IF task = <<>>
    THEN /\ last' = TaskResult("update_task", args, "None", {}, {})
         /\ UNCHANGED <<tasks, tags, inflight, users, chosen, now>>
    ELSE /\ tasks' = table
         /\ last' = TaskResult("update_task", args, "ok",
                               {TaskOut(table, tags, task_id)}, {})
         /\ UNCHANGED <<tags, inflight, users, chosen, now>>

\* TaskService.delete_task (DELETE /tasks/{id}): TaskRepository.soft_delete
delete_task(task_id, user_id) ==
    LET args == [user_id |-> user_id, id |-> task_id]
        task == task_get_by_user(tasks, user_id, task_id)
    IN
    IF task = <<>>
    THEN /\ last' = TaskResult("delete_task", args, "False", {}, {})
         /\ UNCHANGED <<tasks, tags, inflight, users, chosen, now>>
    ELSE /\ tasks' = [tasks EXCEPT ![task_id][1].is_deleted = TRUE]
         /\ last' = TaskResult("delete_task", args, "True", {}, {})
         /\ UNCHANGED <<tags, inflight, users, chosen, now>>

\* TaskService.complete_task (PATCH /tasks/{id}/complete)
complete_task(task_id, user_id) ==
    LET args == [user_id |-> user_id, id |-> task_id]
        task == task_get_by_user(tasks, user_id, task_id)
        table == [tasks EXCEPT ![task_id][1].status = COMPLETED,
                               ![task_id][1].completed_at = <<now>>]
    IN
    IF task = <<>>
    THEN /\ last' = TaskResult("complete_task", args, "None", {}, {})
         /\ UNCHANGED <<tasks, tags, inflight, users, chosen, now>>
    ELSE /\ tasks' = table
         /\ last' = TaskResult("complete_task", args, "ok",
                               {TaskOut(table, tags, task_id)}, {})
         /\ UNCHANGED <<tags, inflight, users, chosen, now>>

\* TaskService.reopen_task (PATCH /tasks/{id}/reopen)
reopen_task(task_id, user_id) ==
    LET args == [user_id |-> user_id, id |-> task_id]
        task == task_get_by_user(tasks, user_id, task_id)
        table == [tasks EXCEPT ![task_id][1].status = PENDING,
                               ![task_id][1].completed_at = <<>>]
    IN
    IF task = <<>> \/ tasks[task_id][1].status /= COMPLETED
    THEN /\ last' = TaskResult("reopen_task", args, "None", {}, {})
         /\ UNCHANGED <<tasks, tags, inflight, users, chosen, now>>
    ELSE /\ tasks' = table
         /\ last' = TaskResult("reopen_task", args, "ok",
                               {TaskOut(table, tags, task_id)}, {})
         /\ UNCHANGED <<tags, inflight, users, chosen, now>>

\* TagRepository.get_by_user
tag_get_by_user(table, user_id, tag_id) ==
    IF table[tag_id] /= <<>> /\ table[tag_id][1].user_id = user_id
    THEN <<tag_id>> ELSE <<>>

\* TagRepository.list_by_user, one page holding them all.
tag_list_by_user(table, user_id) ==
    {g \in TagUuids : tag_get_by_user(table, user_id, g) /= <<>>}

\* TagRepository.name_exists_for_user; exclude_id is Unset or <<id>>.
name_exists_for_user(table, name, user_id, exclude_id) ==
    \E g \in TagUuids : /\ table[g] /= <<>>
                        /\ table[g][1].name = name
                        /\ table[g][1].user_id = user_id
                        /\ exclude_id /= <<g>>

\* TagService.create_tag (POST /tags); tag_id is the key uuid4 draws.
create_tag(user_id, tag_id, name) ==
    LET args == [user_id |-> user_id, id |-> tag_id, name |-> <<name>>]
        table == [tags EXCEPT ![tag_id] = <<[user_id |-> user_id, name |-> name]>>]
    IN
    /\ user_id \in UserIds
    /\ tags[tag_id] = <<>>
    /\ IF name_exists_for_user(tags, name, user_id, Unset)
       THEN /\ last' = TaskResult("create_tag", args, "TagNameExists", {}, {})
            /\ UNCHANGED <<tasks, tags, inflight, users, chosen, now>>
       ELSE /\ tags' = table
            /\ last' = TaskResult("create_tag", args, "ok", {}, {TagOut(table, tag_id)})
            /\ UNCHANGED <<tasks, inflight, users, chosen, now>>

\* TagService.get_tag (GET /tags/{id})
get_tag(tag_id, user_id) ==
    LET args == [user_id |-> user_id, id |-> tag_id]
        tag == tag_get_by_user(tags, user_id, tag_id)
    IN
    /\ last' = IF tag = <<>> THEN TaskResult("get_tag", args, "None", {}, {})
               ELSE TaskResult("get_tag", args, "ok", {}, {TagOut(tags, tag_id)})
    /\ UNCHANGED <<tasks, tags, inflight, users, chosen, now>>

\* TagService.list_tags (GET /tags)
list_tags(user_id) ==
    /\ last' = TaskResult("list_tags", [user_id |-> user_id], "ok", {},
                          {TagOut(tags, g) : g \in tag_list_by_user(tags, user_id)})
    /\ UNCHANGED <<tasks, tags, inflight, users, chosen, now>>

\* TagService.update_tag (PUT /tags/{id}); name is Unset or <<name>>.
update_tag(tag_id, user_id, name) ==
    LET args == [user_id |-> user_id, id |-> tag_id, name |-> name]
        tag == tag_get_by_user(tags, user_id, tag_id)
        table == IF name = Unset THEN tags
                 ELSE [tags EXCEPT ![tag_id][1].name = name[1]]
    IN
    IF tag = <<>>
    THEN /\ last' = TaskResult("update_tag", args, "None", {}, {})
         /\ UNCHANGED <<tasks, tags, inflight, users, chosen, now>>
    ELSE IF name /= Unset /\ name_exists_for_user(tags, name[1], user_id, <<tag_id>>)
    THEN /\ last' = TaskResult("update_tag", args, "TagNameExists", {}, {})
         /\ UNCHANGED <<tasks, tags, inflight, users, chosen, now>>
    ELSE /\ tags' = table
         /\ last' = TaskResult("update_tag", args, "ok", {}, {TagOut(table, tag_id)})
         /\ UNCHANGED <<tasks, inflight, users, chosen, now>>

\* TagService.delete_tag (DELETE /tags/{id}): the tag's rows of task_tags
\* go first, then the tag.
delete_tag(tag_id, user_id) ==
    LET args == [user_id |-> user_id, id |-> tag_id]
        tag == tag_get_by_user(tags, user_id, tag_id)
    IN
    IF tag = <<>>
    THEN /\ last' = TaskResult("delete_tag", args, "False", {}, {})
         /\ UNCHANGED <<tasks, tags, inflight, users, chosen, now>>
    ELSE /\ tasks' = [k \in TaskUuids |->
                        IF tasks[k] = <<>> THEN <<>>
                        ELSE <<[tasks[k][1] EXCEPT !.tags = @ \ {tag_id}]>>]
         /\ tags' = [tags EXCEPT ![tag_id] = <<>>]
         /\ last' = TaskResult("delete_tag", args, "True", {}, {})
         /\ UNCHANGED <<inflight, users, chosen, now>>

\* Inputs of Spec: every identity a provider can report, display names
\* and pictures; one password within bcrypt's 72 bytes and one salt
\* (SpecAuth varies passwords and salts).  link_oauth_account reads only
\* the provider, id and picture of its OAuth2UserInfo.
IdentitySalts == {"s1"}
IdentityPasswords == {<<"pw1", "">>}

Next ==
    \/ \E e \in Emails, p \in IdentityPasswords, n \in Names, s \in IdentitySalts :
          create_user(e, p, n, s)
    \/ \E i \in SubjectIds, d \in {<<>>} \cup {<<n>> : n \in Names} :
          update_user(i, d)
    \/ \E i \in SubjectIds, c \in PasswordHeads \X {""}, p \in IdentityPasswords,
          s \in IdentitySalts :
          change_password(i, c, p, s)
    \/ \E info \in OAuth2UserInfo : authenticate_or_create_user(info)
    \/ \E i \in SubjectIds,
          info \in {x \in OAuth2UserInfo : x.email = "a@x" /\ x.name = None} :
          link_oauth_account(UuidStr(i), info)
    \/ \E i \in SubjectIds, p \in Providers :
          unlink_oauth_account(UuidStr(i), p)

Spec == Init /\ [][Next]_vars

\* Inputs of SpecAuth: one external identity, no display metadata.
AuthInfos ==
    {info \in OAuth2UserInfo :
        /\ info.provider = GOOGLE /\ info.id = "x1"
        /\ info.name = None /\ info.picture = None}

NextAuth ==
    \/ \E e \in Emails, p \in Passwords, s \in Salts :
          create_user(e, p, None, s)
    \/ \E i \in SubjectIds, c \in Passwords, p \in Passwords, s \in Salts :
          change_password(i, c, p, s)
    \/ \E i \in SubjectIds : deactivate_user(i)
    \/ \E i \in SubjectIds : activate_user(i)
    \/ \E i \in SubjectIds : delete_user(i)
    \/ \E info \in AuthInfos : authenticate_or_create_user(info)
    \/ \E e \in Emails, p \in Passwords : login(e, p)
    \/ \E i \in SubjectIds : get_current_user(i)
    \/ \E i \in SubjectIds : refresh_token(i)
    \/ \E c \in BearerCredentials(now) : refresh_token_route(c)

SpecAuth == Init /\ [][NextAuth]_vars

\* SpecToken: the clock, the hasher, the token service, and accounts that
\* come and go while tokens are in circulation.
NextToken ==
    \/ Tick
    \/ \E s \in Subjects, d \in Deltas : IssueAndVerify(s, d)
    \/ \E k \in PresentedTokens(now) : VerifyToken(k)
    \/ \E p \in Passwords, h \in StoredCredentials : VerifyStored(p, h)
    \/ \E p, q \in Passwords, s, t \in Salts : HashTwiceAndVerify(p, q, s, t)
    \/ \E p \in IdentityPasswords, s \in IdentitySalts :
          create_user("a@x", p, None, s)
    \/ \E i \in SubjectIds : deactivate_user(i)

SpecToken == Init /\ [][NextToken]_vars

\* SpecRace: two callback requests whose reconciliations interleave at
\* their awaits.
NextRace ==
    \/ \E c \in Callers, i \in OAuthIds, e \in Emails :
          ReconcileBegin(c, [id |-> i, email |-> e, name |-> None, picture |-> None,
                             provider |-> GITHUB])
    \/ \E c \in Callers : ReconcileByOAuth(c)
    \/ \E c \in Callers : ReconcileByEmail(c)
    \/ \E c \in Callers : ReconcileCreate(c)

SpecRace == Init /\ [][NextRace]_vars

\* SpecTasks: two users working on tasks and tags, each request under the
\* id of its authenticated user; a@x registers first.  Status changes come
\* from complete and reopen here (SpecStatus varies the status fields);
\* a tag is created under the name of its slot and renamed to "work".
NextRegistrant == IF users = <<>> THEN "a@x" ELSE "b@x"

NextTasks ==
    \/ \E p \in IdentityPasswords, s \in IdentitySalts :
          create_user(NextRegistrant, p, None, s)
    \/ \E u \in UserIds, k \in TaskUuids, g \in {{}, {"g1"}, TagUuids} :
          create_task(u, k, PENDING, g)
    \/ \E u \in UserIds, k \in TaskUuids : get_task(k, u)
    \/ \E u \in UserIds : list_tasks(u)
    \/ \E u \in UserIds, k \in TaskUuids, g \in {<<{}>>, <<{"g1"}>>, <<TagUuids>>} :
          update_task(k, u, Unset, g)
    \/ \E u \in UserIds, k \in TaskUuids : delete_task(k, u)
    \/ \E u \in UserIds, k \in TaskUuids : complete_task(k, u)
    \/ \E u \in UserIds, k \in TaskUuids : reopen_task(k, u)
    \/ \E u \in UserIds, g \in TagUuids : 
          create_tag(u, g, IF g = "g1" THEN "work" ELSE "home")
    \/ \E u \in UserIds, g \in TagUuids : get_tag(g, u)
    \/ \E u \in UserIds : list_tags(u)
    \/ \E u \in UserIds, g \in TagUuids, n \in {Unset, <<"work">>} :
          update_tag(g, u, n)
    \/ \E u \in UserIds, g \in TagUuids : delete_tag(g, u)

SpecTasks == Init /\ [][NextTasks]_vars

\* SpecStatus: tasks without tags whose status is set at creation, by
\* update, by complete and by reopen.
NextStatus ==
    \/ \E p \in IdentityPasswords, s \in IdentitySalts :
          create_user(NextRegistrant, p, None, s)
    \/ \E u \in UserIds, k \in TaskUuids, st \in TaskStatus : create_task(u, k, st, {})
    \/ \E u \in UserIds, k \in TaskUuids, st \in {Unset} \cup {<<t>> : t \in TaskStatus} :
          update_task(k, u, st, Unset)
    \/ \E u \in UserIds, k \in TaskUuids : complete_task(k, u)
    \/ \E u \in UserIds, k \in TaskUuids : reopen_task(k, u)
    \/ \E u \in UserIds, k \in TaskUuids : delete_task(k, u)

SpecStatus == Init /\ [][NextStatus]_vars

(***************************************************************************)
(* Sessions over time: tokens outlive the activity of their user           *)
(***************************************************************************)

\* SpecSession: accounts are deactivated and activated again as time
\* passes; protected requests bear a token the service issued for a user
\* at or before now (login, oauth_login and refresh all issue
\* create_access_token(str(user.id)) with the default time-to-live).
NextSession ==
    \/ Tick
    \/ \E p \in IdentityPasswords, s \in IdentitySalts :
          create_user(NextRegistrant, p, None, s)
    \/ \E i \in SubjectIds : deactivate_user(i)
    \/ \E i \in SubjectIds : activate_user(i)
    \/ \E i \in SubjectIds : delete_user(i)
    \/ \E info \in AuthInfos : authenticate_or_create_user(info)
    \/ \E e \in Emails, p \in IdentityPasswords : login(e, p)
    \/ \E i \in SubjectIds : refresh_token(i)
    \/ \E i \in SubjectIds, u \in IssueTimes(now) :
          refresh_token_route(<<create_access_token(UuidStr(i), NoDelta, u)>>)

SpecSession == Init /\ [][NextSession]_vars

\* SpecLinkRace: two registered users' link requests interleave at their
\* awaits.
NextLinkRace ==
    \/ \E p \in IdentityPasswords, s \in IdentitySalts :
          create_user(NextRegistrant, p, None, s)
    \/ \E c \in Callers, i \in SubjectIds, x \in OAuthIds :
          LinkBegin(c, UuidStr(i), [id |-> x, email |-> "a@x", name |-> None,
                                    picture |-> None, provider |-> GITHUB])
    \/ \E c \in Callers : LinkCheck(c)
    \/ \E c \in Callers : LinkCommit(c)

SpecLinkRace == Init /\ [][NextLinkRace]_vars

\* SpecFlow: the flow engine called operation by operation and through the
\* callback route, next to password registration.
NextFlow ==
    \/ \E st \in EngineSettings, p \in FlowProviders, s \in CallerStates,
          f \in FreshStates :
          GetAuthorizationUrl(st, p, s, f)
    \/ \E st \in EngineSettings, p \in FlowProviders,
          u \in {None, "http://localhost:4200/auth/callback/github"},
          r \in TokenResponses :
          ExchangeCode(st, p, "code-1", u, r)
    \/ \E st \in {ConfiguredSettings, GithubWithoutSecret}, p \in FlowProviders,
          r \in UserInfoResponses, m \in EmailsResponses :
          GetUserInfo(st, p, "ptok", r, m)
    \/ \E st \in {ConfiguredSettings, DisabledSettings}, p \in {GOOGLE, GITHUB},
          e \in {"fresh-1", "never-issued"}, t \in TokenResponses, r \in UserInfoResponses :
          oauth_callback(st, p, "badcode", e, t, r, PrimaryListed)
    \/ \E p \in IdentityPasswords, s \in IdentitySalts :
          create_user("a@x", p, None, s)

SpecFlow == Init /\ [][NextFlow]_vars

(***************************************************************************)
(* Properties of the identity reconciler (Spec)                            *)
(***************************************************************************)

\* The rows of `table` carrying the external identity (provider, oauth_id).
Holders(table, provider, oauth_id) ==
    {j \in 1..Len(table) : table[j].oauth_provider = provider
                           /\ table[j].oauth_id = oauth_id}

\* C1: after any sequence of register, reconcile, link and unlink handlers,
\* no two distinct users hold the same non-null (oauth_provider, oauth_id).
C1_OAuthPairUnique ==
    \A i \in UserIds, j \in UserIds :
        (/\ i /= j
         /\ users[i].oauth_provider /= None
         /\ users[i].oauth_id /= None)
        => ~(/\ users[j].oauth_provider = users[i].oauth_provider
             /\ users[j].oauth_id = users[i].oauth_id)

\* Two users linked at the same provider under different ids, the second
\* link having just gone through.
C1_Witness ==
    /\ Len(users) = 2
    /\ last.op = "link" /\ last.outcome = "ok"
    /\ users[1].oauth_provider = GOOGLE
    /\ users[2].oauth_provider = GOOGLE
    /\ users[1].oauth_id /= users[2].oauth_id

\* C2: unlink on an existing user whose provider is the requested one but
\* who has no password credential fails with NoPasswordSet and leaves
\* oauth_provider and oauth_id as they were.
C2_UnlinkNeedsPassword ==
    [][(/\ last'.op = "unlink"
        /\ ParseUuid(last'.args.user_id) \in UserIds
        /\ users[ParseUuid(last'.args.user_id)].oauth_provider = last'.args.provider
        /\ users[ParseUuid(last'.args.user_id)].hashed_password = NoHash)
       => LET i == ParseUuid(last'.args.user_id)
          IN  /\ last'.outcome = "NoPasswordSet"
              /\ users'[i].oauth_provider = users[i].oauth_provider
              /\ users'[i].oauth_id = users[i].oauth_id]_vars

\* An OAuth-created user has just been refused the unlink of its provider.
C2_Witness ==
    /\ last.op = "unlink" /\ last.outcome = "NoPasswordSet"
    /\ users[last.uid].hashed_password = NoHash
    /\ users[last.uid].oauth_provider = last.args.provider

\* C3: link by an existing user fails with AlreadyLinkedElsewhere whenever
\* another user holds (info.provider, info.id), and then no record changes.
C3_LinkCollisionRefused ==
    [][(/\ last'.op = "link"
        /\ ParseUuid(last'.args.user_id) \in UserIds
        /\ Holders(users, last'.args.provider, last'.args.id)
              \ {ParseUuid(last'.args.user_id)} /= {})
       => (/\ last'.outcome = "AlreadyLinkedElsewhere"
           /\ users' = users)]_vars

\* A link has just been refused; the identity is still with its holder.
C3_Witness ==
    /\ last.op = "link" /\ last.outcome = "AlreadyLinkedElsewhere"
    /\ last.uid \in UserIds
    /\ Holders(users, last.args.provider, last.args.id) \ {last.uid} /= {}

\* C4: every user record has a password credential or an oauth_provider.
C4_CredentialOrProvider ==
    \A i \in UserIds :
        users[i].hashed_password /= NoHash \/ users[i].oauth_provider /= None

\* A password user has just dropped its provider next to an OAuth-only user.
C4_Witness ==
    /\ last.op = "unlink" /\ last.outcome = "ok"
    /\ users[last.uid].oauth_provider = None
    /\ \E j \in UserIds : users[j].hashed_password = NoHash

\* C5: reconcile with an identity some user already holds returns that
\* user, creates nobody and changes no record, whatever email, name and
\* picture the provider reports (so a repeated call returns the same id).
C5_ReconcileFoundIdempotent ==
    [][(/\ last'.op = "oauth_login"
        /\ Holders(users, last'.args.provider, last'.args.id) /= {})
       => (/\ last'.outcome = "found"
           /\ Holders(users, last'.args.provider, last'.args.id) = {last'.uid}
           /\ users' = users)]_vars

\* A holder has just been found again although the provider reported
\* another email, name and picture than the stored ones.
C5_Witness ==
    /\ last.op = "oauth_login" /\ last.outcome = "found"
    /\ users[last.uid].email /= last.args.email
    /\ users[last.uid].full_name /= last.args.name
    /\ users[last.uid].avatar_url /= last.args.picture
    /\ last.args.picture /= None

\* C6: reconcile with an identity nobody holds and the email of a
\* password-only user links that user: no user is added, provider and id
\* become info's, the avatar changes only to a supplied picture, and the
\* password credential is kept.
C6_ReconcileLinksByEmail ==
    [][(/\ last'.op = "oauth_login"
        /\ Holders(users, last'.args.provider, last'.args.id) = {}
        /\ \E j \in UserIds : /\ users[j].email = last'.args.email
                               /\ users[j].hashed_password /= NoHash
                               /\ users[j].oauth_provider = None)
       => LET j == last'.uid
              info == last'.args
          IN  /\ last'.outcome = "linked"
              /\ j \in UserIds
              /\ users[j].email = info.email
              /\ Len(users') = Len(users)
              /\ users'[j].oauth_provider = info.provider
              /\ users'[j].oauth_id = info.id
              /\ users'[j].avatar_url = IF info.picture = None
                                        THEN users[j].avatar_url
                                        ELSE info.picture
              /\ users'[j].hashed_password = users[j].hashed_password]_vars

\* A registered user has just been linked by email, no picture supplied.
C6_Witness ==
    /\ last.op = "oauth_login" /\ last.outcome = "linked"
    /\ last.args.picture = None
    /\ users[last.uid].hashed_password /= NoHash
    /\ users[last.uid].oauth_provider = last.args.provider
    /\ users[last.uid].avatar_url = None

(***************************************************************************)
(* Properties of the auth facade (SpecAuth)                                *)
(***************************************************************************)

\* No user has the email.
UnknownEmail(email) == \A j \in UserIds : users[j].email /= email

\* An active user has the email and last set another password (or none).
WrongPassword(email, password) ==
    \E j \in UserIds : /\ users[j].email = email
                       /\ users[j].is_active
                       /\ chosen[j] /= <<password>>

\* An active user has the email and its password differs from the supplied
\* one within the 72 bytes bcrypt reads (or it has none).
WrongPassword72(email, password) ==
    \E j \in UserIds : /\ users[j].email = email
                       /\ users[j].is_active
                       /\ \/ chosen[j] = <<>>
                          \/ /\ chosen[j] /= <<>>
                             /\ BcryptTruncate(chosen[j][1]) /= BcryptTruncate(password)

\* A deactivated user has the email and the supplied password is its own.
InactiveWithPassword(email, password) ==
    \E j \in UserIds : /\ users[j].email = email
                       /\ ~users[j].is_active
                       /\ chosen[j] = <<password>>

\* What the caller of a rejected login sees.
LoginRefusal(r) ==
    /\ r.outcome = "null"
    /\ r.user = <<>>
    /\ r.token = <<>>
    /\ r.extra = <<LoginRejected>>

\* C7 as stated: login returns null, with the one 401 response, for an
\* unknown email, for any wrong password of an active user and for a
\* deactivated user with the right password.
C7_LoginRejectsAnyWrongPassword ==
    (/\ last.op = "login"
     /\ \/ UnknownEmail(last.args.email)
        \/ WrongPassword(last.args.email, last.args.password)
        \/ InactiveWithPassword(last.args.email, last.args.password))
    => LoginRefusal(last)

\* C7 as amended: the same, for a wrong password that differs from the
\* account's password within its first 72 bytes.
C7_LoginRejectsIndistinguishably ==
    (/\ last.op = "login"
     /\ \/ UnknownEmail(last.args.email)
        \/ WrongPassword72(last.args.email, last.args.password)
        \/ InactiveWithPassword(last.args.email, last.args.password))
    => LoginRefusal(last)

\* A deactivated user has just been refused with its own password.
C7_Witness ==
    /\ last.op = "login"
    /\ InactiveWithPassword(last.args.email, last.args.password)
    /\ LoginRefusal(last)
    /\ \E j \in UserIds : users[j].is_active

\* C8: current_user and refresh return null exactly when the id resolves to
\* no active user; otherwise current_user returns that user and refresh a
\* token issued now whose subject is the id.
C8_LivenessGate ==
    last.op \in {"current_user", "refresh"} =>
        LET id == last.args.user_id
            live == id \in UserIds /\ users[id].is_active
        IN  /\ last.outcome = "null" <=> ~live
            /\ last.outcome = "null" => last.user = <<>> /\ last.token = <<>>
            /\ (last.op = "current_user" /\ live) =>
                  /\ last.outcome = "ok"
                  /\ last.user = <<UserOut(users, id)>>
                  /\ last.user[1].id = id
            /\ (last.op = "refresh" /\ live) =>
                  /\ last.outcome = "ok"
                  /\ last.token /= <<>>
                  /\ last.token[1].payload.sub = UuidStr(id)
                  /\ last.token[1].payload.iat = now
                  /\ decode_access_token(last.token[1], now).ok

\* A refresh has just been refused for a deactivated user.
C8_Witness ==
    /\ last.op = "refresh" /\ last.outcome = "null"
    /\ last.args.user_id \in UserIds
    /\ ~users[last.args.user_id].is_active

\* C9: oauth_login issues a valid session token for the reconciled user
\* whether or not that user is active.
C9_OAuthLoginIgnoresActiveFlag ==
    last.op = "oauth_login" =>
        /\ last.outcome \in {"found", "linked", "created"}
        /\ last.uid \in UserIds
        /\ last.user = <<UserOut(users, last.uid)>>
        /\ last.token /= <<>>
        /\ last.token[1].payload.sub = UuidStr(last.uid)
        /\ decode_access_token(last.token[1], now).ok

\* A deactivated password user has just been linked by email and handed a
\* token.
C9_Witness ==
    /\ last.op = "oauth_login" /\ last.outcome = "linked"
    /\ ~users[last.uid].is_active
    /\ last.token /= <<>>

(***************************************************************************)
(* Properties of the token service (SpecToken)                             *)
(***************************************************************************)

\* C10: a token issued with the default (or a positive) time-to-live and
\* verified at once decodes to the subject it was issued for, with the
\* type tag "access" and both iat and exp in the payload.
C10_IssueVerifyRoundTrip ==
    (/\ last.op = "issue_verify"
     /\ \/ last.args.expires_delta = NoDelta
        \/ /\ last.args.expires_delta /= NoDelta
           /\ last.args.expires_delta[1] >= 0)
    => LET decoded == last.extra[1]
       IN  /\ decoded.ok
           /\ decoded.payload[1].sub = last.args.subject
           /\ decoded.payload[1].type = "access"
           /\ {"iat", "exp"} \subseteq DOMAIN decoded.payload[1]
           /\ decoded.payload[1].iat = last.args.at
           /\ decoded.payload[1].exp > last.args.at

\* A default-lifetime token has just been issued and verified after the
\* clock has moved.
C10_Witness ==
    /\ last.op = "issue_verify"
    /\ last.args.expires_delta = NoDelta
    /\ last.args.subject = UuidStr(2)
    /\ last.extra[1].ok
    /\ last.args.at > 0

\* Signed by this process: the header names its algorithm and the signature
\* is the HMAC of the token's own header and payload under its key.
CorrectlySigned(token) ==
    /\ token.form = "jwt"
    /\ token.header.alg = ALGORITHM
    /\ token.signature = JwtSign(SECRET_KEY, SigningInput(token))

\* A token issued with a negative time-to-live fails with Expired at once.
NegativeTtlExpired ==
    (/\ last.op = "issue_verify"
     /\ last.args.expires_delta /= NoDelta
     /\ last.args.expires_delta[1] < 0)
    => (/\ ~last.extra[1].ok
        /\ last.extra[1].error = "ExpiredSignatureError")

\* C11 as stated: a correctly signed token verifies at time t exactly when
\* t is before its exp (and fails with Expired otherwise), whatever has
\* happened to the user store; a negative time-to-live fails at once.
C11_ValidOnlyBeforeExpiry ==
    /\ (last.op = "verify" /\ CorrectlySigned(last.token[1])) =>
          /\ last.extra[1].ok <=> last.args.at < last.token[1].payload.exp
          /\ ~last.extra[1].ok => last.extra[1].error = "ExpiredSignatureError"
    /\ NegativeTtlExpired

\* C11 as amended: a correctly signed token verifies at time t exactly when
\* t is not after its exp (it still verifies in the second exp names) and
\* fails with Expired otherwise, whatever has happened to the user store; a
\* negative time-to-live fails at once.
C11_ValidUntilExpiry ==
    /\ (last.op = "verify" /\ CorrectlySigned(last.token[1])) =>
          /\ last.extra[1].ok <=> last.args.at <= last.token[1].payload.exp
          /\ ~last.extra[1].ok => last.extra[1].error = "ExpiredSignatureError"
    /\ NegativeTtlExpired

\* A token has just verified in the very second it expires, its subject's
\* account having been deactivated since it was issued.
C11_Witness ==
    /\ last.op = "verify"
    /\ CorrectlySigned(last.token[1])
    /\ last.args.at = last.token[1].payload.exp
    /\ last.extra[1].ok
    /\ ParseUuid(last.token[1].payload.sub) \in UserIds
    /\ ~users[ParseUuid(last.token[1].payload.sub)].is_active

\* Why a presented token must fail at time t, judged from the token alone:
\* it does not parse, it is not signed by this process, or it is signed and
\* its exp has passed ("none": nothing is wrong with it).  A payload
\* overwritten under the old signature counts as a signature failure.
FailureCause(token, t) ==
    LET signed == /\ token.header.alg = ALGORITHM
                  /\ token.signature = JwtSign(SECRET_KEY, SigningInput(token))
    IN  IF token.form \in {"segments", "header"} THEN "Malformed"
        ELSE IF ~signed THEN "BadSignature"
        ELSE IF token.form = "payload" THEN "Malformed"
        ELSE IF token.payload.exp < t THEN "Expired"
        ELSE "none"

AuthFailure(credentials, t) ==
    \/ credentials = NoCredentials
    \/ /\ credentials /= NoCredentials
       /\ LET token == credentials[1]
              sub == token.payload.sub
          IN  \/ FailureCause(token, t) /= "none"
              \/ sub = None
              \/ \A i \in UserIds : UuidStr(i) /= sub
              \/ \E i \in UserIds : UuidStr(i) = sub /\ ~users[i].is_active

\* C13: a protected request with any authentication failure is answered
\* with the one 401 response and its handler does not run (no token is
\* issued); without a failure the handler runs for the token's subject.
C13_UnauthenticatedCollapse ==
    last.op = "refresh_route" =>
        IF AuthFailure(last.args.credentials, last.args.at)
        THEN /\ last.outcome = "401"
             /\ last.extra = <<Unauthenticated>>
             /\ last.token = <<>>
             /\ last.uid = NoUser
        ELSE /\ last.outcome = "ok"
             /\ last.extra[1].status = 200
             /\ UuidStr(last.uid) = last.args.credentials[1].payload.sub
             /\ last.token /= <<>>

\* A validly signed, unexpired token of a deactivated user has just been
\* refused.
C13_Witness ==
    /\ last.op = "refresh_route"
    /\ last.outcome = "401"
    /\ last.args.credentials /= NoCredentials
    /\ FailureCause(last.args.credentials[1], last.args.at) = "none"
    /\ \E i \in UserIds : /\ UuidStr(i) = last.args.credentials[1].payload.sub
                          /\ ~users[i].is_active

(***************************************************************************)
(* Properties of the flow engine (SpecFlow)                                *)
(***************************************************************************)

\* The registry knows the provider and the settings lack its client id or
\* its client secret.
Unconfigured(settings, provider) ==
    /\ provider \in {GOOGLE, GITHUB, MICROSOFT}
    /\ \/ settings[PROVIDER_CONFIG[provider].client_id_key] = ""
       \/ settings[PROVIDER_CONFIG[provider].client_secret_key] = ""

\* The registry knows the provider and the settings hold both its client id
\* and its client secret.
Configured(settings, provider) ==
    /\ provider \in {GOOGLE, GITHUB, MICROSOFT}
    /\ settings[PROVIDER_CONFIG[provider].client_id_key] /= ""
    /\ settings[PROVIDER_CONFIG[provider].client_secret_key] /= ""

\* C14: for a provider whose client id or client secret is empty,
\* authorization_url, exchange_code and fetch_user_info each fail with
\* ProviderNotConfigured, having built no URL and sent no request.
C14_UnconfiguredProviderRefused ==
    (/\ last.op \in {"authorization_url", "exchange_code", "fetch_user_info"}
     /\ Unconfigured(last.args.settings, last.args.provider))
    => (/\ ~last.extra[1].ok
        /\ last.extra[1].error = "ValueError"
        /\ last.extra[1].detail = "OAuth2 credentials not configured"
        /\ last.extra[1].value = <<>>
        /\ last.extra[1].calls = <<>>)

\* urllib.parse.unquote_plus on the strings in play.
unquote_plus(v) ==
    IF \E k \in DOMAIN Escapes : Escapes[k] = v
    THEN CHOOSE k \in DOMAIN Escapes : Escapes[k] = v
    ELSE v

\* parse_qs: the keys of a query string and the value under a key.
QueryKeys(query) == {unquote_plus(query[i][1]) : i \in 1..Len(query)}
QueryValue(query, key) ==
    unquote_plus(query[CHOOSE i \in 1..Len(query) : unquote_plus(query[i][1]) = key][2])

\* C15: for a configured provider authorization_url returns (url, s) with
\* s the supplied state (a fresh one when none, or an empty one, is
\* supplied); the url is the provider's authorize URL and its query decodes
\* to client_id, redirect_uri, response_type=code, scope and state=s, each
\* once, plus response_mode exactly for microsoft.
C15_AuthorizationUrlShape ==
    (/\ last.op = "authorization_url"
     /\ Configured(last.args.settings, last.args.provider))
    => LET provider == last.args.provider
           settings == last.args.settings
           config == PROVIDER_CONFIG[provider]
           supplied == last.args.state \notin {None, ""}
           url == last.extra[1].value[1].authorization_url
           s == last.extra[1].value[1].state
       IN  /\ last.extra[1].ok
           /\ last.extra[1].calls = <<>>
           /\ supplied => s = last.args.state
           /\ ~supplied => s = last.args.fresh /\ s \in FreshStates
           /\ url.base = config.authorize_url
           /\ QueryKeys(url.query) =
                 {"client_id", "redirect_uri", "response_type", "scope", "state"}
                 \cup (IF provider = MICROSOFT THEN {"response_mode"} ELSE {})
           /\ Len(url.query) = Cardinality(QueryKeys(url.query))
           /\ QueryValue(url.query, "client_id") = settings[config.client_id_key]
           /\ QueryValue(url.query, "redirect_uri") = settings[config.redirect_uri_key]
           /\ QueryValue(url.query, "response_type") = "code"
           /\ QueryValue(url.query, "scope") = config.scope
           /\ QueryValue(url.query, "state") = s

\* An authorization URL has just been built for github with a supplied
\* state that needs escaping: no response_mode in its query.
C15_Witness ==
    /\ last.op = "authorization_url"
    /\ last.args.provider = GITHUB
    /\ last.args.state = "st/1"
    /\ last.extra[1].ok
    /\ "response_mode" \notin QueryKeys(last.extra[1].value[1].authorization_url.query)
    /\ last.extra[1].value[1].authorization_url.query[5] = <<"state", "st%2F1">>

\* C16: for a configured provider whose token endpoint answers with a
\* non-success status, exchange_code fails with the HTTP status error after
\* its one POST; the callback route answers 500 with that error, sends no
\* user-info request and leaves every user record as it was.
C16_TokenExchangeFailureSurfaces ==
    [][/\ (/\ last'.op = "exchange_code"
           /\ Configured(last'.args.settings, last'.args.provider)
           /\ last'.args.response.status \notin 200..299)
          => (/\ ~last'.extra[1].ok
              /\ last'.extra[1].error = "HTTPStatusError"
              /\ Len(last'.extra[1].calls) = 1
              /\ last'.extra[1].calls[1].method = "POST"
              /\ users' = users)
       /\ (/\ last'.op = "oauth_callback"
           /\ last'.args.settings.OAUTH2_ENABLED
           /\ Configured(last'.args.settings, last'.args.provider)
           /\ last'.args.token_response.status \notin 200..299)
          => (/\ last'.outcome = "500"
              /\ last'.extra[1].error = "HTTPStatusError"
              /\ Len(last'.extra[1].calls) = 1
              /\ last'.extra[1].calls[1].url =
                    PROVIDER_CONFIG[last'.args.provider].access_token_url
              /\ last'.user = <<>> /\ last'.token = <<>>
              /\ users' = users)]_vars

\* With a user registered, the callback for github has just answered 500
\* to a 401 from the token endpoint.
C16_Witness ==
    /\ last.op = "oauth_callback"
    /\ last.args.provider = GITHUB
    /\ last.args.code = "badcode"
    /\ last.args.token_response.status = 401
    /\ last.outcome = "500"
    /\ Len(users) = 1

\* C17: fetch_user_info for github, whose user-info answer has no email,
\* sends a second request to the email-list endpoint and returns info whose
\* email is the entry flagged primary, or the first entry when none is.
C17_GithubEmailFallback ==
    (/\ last.op = "fetch_user_info"
     /\ last.args.provider = GITHUB
     /\ last.args.response.status = 200
     /\ last.args.response.id /= None
     /\ last.args.response.email = None
     /\ last.args.emails_response.status = 200
     /\ Len(last.args.emails_response.emails) > 0)
    => LET emails == last.args.emails_response.emails
           flagged == {i \in 1..Len(emails) : emails[i].primary}
           expected == IF flagged = {} THEN emails[1].email
                       ELSE emails[CHOOSE i \in flagged :
                                      \A j \in flagged : i <= j].email
       IN  /\ last.extra[1].ok
           /\ Len(last.extra[1].calls) = 2
           /\ last.extra[1].calls[2].url = GITHUB_EMAILS_URL
           /\ last.extra[1].value[1].email = expected

(***************************************************************************)
(* Properties of the credential hasher (SpecToken)                         *)
(***************************************************************************)

\* C20: verify_password on an absent stored credential, or on a stored
\* string that is no hash, returns false and raises nothing.
C20_VerifyNeverRaises ==
    (/\ last.op = "verify_password"
     /\ last.args.stored \in {NoHash} \cup MalformedHashes)
    => (/\ ~last.extra[1].raised
        /\ last.extra[1].value = FALSE
        /\ last.outcome = "ok")

(***************************************************************************)
(* Properties of concurrent reconciliation (SpecRace)                      *)
(***************************************************************************)

\* Both requests have returned from reconciliations that overlapped, for
\* one external identity that no user held when either began.
RacedForUnseen ==
    /\ \A c \in Callers : /\ inflight[c].pc = "done"
                          /\ inflight[c].unseen
                          /\ inflight[c].raced
    /\ \A c, d \in Callers : SameIdentity(inflight[c].info[1], inflight[d].info[1])

\* C18: two interleaved reconcile calls for one unseen (provider,
\* external_id) both return the same user, exactly one user holds the
\* identity afterwards, and neither call surfaces a constraint error.
C18_RaceResolvesToOneUser ==
    RacedForUnseen =>
        /\ \A c \in Callers :
              inflight[c].result[1].outcome \in {"found", "linked", "created"}
        /\ \A c, d \in Callers :
              inflight[c].result[1].uid = inflight[d].result[1].uid
        /\ \A c \in Callers :
              Cardinality(OAuthMatches(users, inflight[c].info[1].provider,
                                       inflight[c].info[1].id)) = 1

(***************************************************************************)
(* Properties of email uniqueness (Spec)                                   *)
(***************************************************************************)

\* No two users share an email.
EmailsUnique ==
    \A i, j \in UserIds : users[i].email = users[j].email => i = j

\* C19: register with an email some user holds, however that user came to
\* be, fails with "Email already registered" and creates no user; and after
\* any sequence of register and reconcile operations no two users share an
\* email.
C19_EmailHeldOnce ==
    /\ []EmailsUnique
    /\ [][(/\ last'.op = "register"
           /\ \E i \in UserIds : users[i].email = last'.args.email)
          => (/\ last'.outcome = "EmailAlreadyRegistered"
              /\ last'.user = <<>>
              /\ users' = users)]_vars

\* Registration has just been refused for an email held by a user that
\* OAuth reconciliation created, with another user registered beside it.
C19_Witness ==
    /\ last.op = "register"
    /\ last.outcome = "EmailAlreadyRegistered"
    /\ Len(users) = 2
    /\ \E i \in UserIds : /\ users[i].email = last.args.email
                          /\ users[i].hashed_password = NoHash
                          /\ users[i].oauth_provider /= None
    /\ \E i \in UserIds : users[i].hashed_password /= NoHash

\* Both credentials of one password are accepted or both refused, without
\* an exception, and the two credentials differ.
SaltedAlike(r) ==
    /\ ~r.verified.raised /\ ~r.verified_again.raised
    /\ r.verified.value = r.verified_again.value
    /\ r.first /= r.second

\* C21 as stated: verify(p, hash(p)) is true, verify(p, hash(q)) is false
\* whenever p differs from q, and two calls hash(p) give different
\* credentials that both verify against p.
C21_VerifyExactlyOwnPassword ==
    last.op = "hash_verify" =>
        /\ SaltedAlike(last.extra[1])
        /\ last.extra[1].verified.value <=> last.args.p = last.args.q

\* C21 as amended: verify(p, hash(p)) is true, verify(p, hash(q)) is false
\* when p differs from q within the first 72 bytes (and true when they
\* differ only beyond them), and two calls hash(p) give different
\* credentials that both verify against p.
C21_VerifyOwnPassword72 ==
    last.op = "hash_verify" =>
        /\ SaltedAlike(last.extra[1])
        /\ last.extra[1].verified.value <=> last.args.p[1] = last.args.q[1]

\* A password longer than 72 bytes has just been hashed twice into two
\* different credentials, both of which verify against it.
C21_Witness ==
    /\ last.op = "hash_verify"
    /\ last.args.p = last.args.q
    /\ last.args.p[2] /= ""
    /\ last.extra[1].first /= last.extra[1].second
    /\ last.extra[1].verified.value
    /\ last.extra[1].verified_again.value

(***************************************************************************)
(* Properties of the callback's state check (SpecFlow)                     *)
(***************************************************************************)

\* C22: a callback whose echoed state was never issued by
\* authorization_url is turned away before the code exchange: it sends no
\* request to the provider.
C22_UnissuedStateStopsShort ==
    (/\ last.op = "oauth_callback"
     /\ last.args.state \notin FreshStates)
    => last.extra[1].calls = <<>>

(***************************************************************************)
(* Properties of link management (Spec)                                    *)
(***************************************************************************)

\* The fields of a user record other than oauth_provider and oauth_id.
OtherFields(row) ==
    [email |-> row.email, hashed_password |-> row.hashed_password,
     full_name |-> row.full_name, is_active |-> row.is_active,
     is_superuser |-> row.is_superuser, avatar_url |-> row.avatar_url]

\* C23: unlink fails with UserNotFound, else with ProviderNotLinked when
\* the user's provider is not the requested one (a user without provider
\* included), else with NoPasswordSet, and then no record changes; else it
\* clears oauth_provider and oauth_id of that user and changes nothing else.
C23_UnlinkOrderAndFrame ==
    [][last'.op = "unlink" =>
          LET i == ParseUuid(last'.args.user_id)
              refused(kind) == last'.outcome = kind /\ users' = users
          IN  IF i \notin UserIds THEN refused("UserNotFound")
              ELSE IF users[i].oauth_provider /= last'.args.provider
              THEN refused("ProviderNotLinked")
              ELSE IF users[i].hashed_password = NoHash
              THEN refused("NoPasswordSet")
              ELSE /\ last'.outcome = "ok"
                   /\ Len(users') = Len(users)
                   /\ \A j \in UserIds \ {i} : users'[j] = users[j]
                   /\ users'[i].oauth_provider = None
                   /\ users'[i].oauth_id = None
                   /\ OtherFields(users'[i]) = OtherFields(users[i])]_vars

\* A user without password has just been refused the unlink of a provider
\* it is not linked to: the provider is looked at first.
C23_Witness ==
    /\ last.op = "unlink"
    /\ last.outcome = "ProviderNotLinked"
    /\ users[last.uid].hashed_password = NoHash
    /\ users[last.uid].oauth_provider \notin {None, last.args.provider}

\* A successful link sets provider and id from info and changes nothing
\* but these and the avatar, of the caller's record alone.
LinkFrame(i) ==
    /\ Len(users') = Len(users)
    /\ \A j \in UserIds \ {i} : users'[j] = users[j]
    /\ users'[i].oauth_provider = last'.args.provider
    /\ users'[i].oauth_id = last'.args.id
    /\ [OtherFields(users'[i]) EXCEPT !.avatar_url = None]
          = [OtherFields(users[i]) EXCEPT !.avatar_url = None]

\* C24 as stated: a successful link overwrites oauth_provider, oauth_id
\* and avatar_url with info's provider, id and picture, and leaves email,
\* password credential and is_active unchanged.
C24_LinkOverwritesAvatar ==
    [][(last'.op = "link" /\ last'.outcome = "ok") =>
          /\ LinkFrame(last'.uid)
          /\ users'[last'.uid].avatar_url = last'.args.picture]_vars

\* C24 as amended: a successful link overwrites oauth_provider and
\* oauth_id with info's provider and id, and avatar_url with info's picture
\* when info carries one (the avatar is kept when it carries none), and
\* leaves email, password credential and is_active unchanged.
C24_LinkOverwritesSuppliedAvatar ==
    [][(last'.op = "link" /\ last'.outcome = "ok") =>
          /\ LinkFrame(last'.uid)
          /\ users'[last'.uid].avatar_url =
                IF Truthy(last'.args.picture) THEN last'.args.picture
                ELSE users[last'.uid].avatar_url]_vars

\* A user with an avatar has just linked an identity that came without a
\* picture, and still has the avatar.
C24_Witness ==
    /\ last.op = "link" /\ last.outcome = "ok"
    /\ last.args.picture = None
    /\ users[last.uid].avatar_url = "picA"
    /\ users[last.uid].oauth_provider = last.args.provider
    /\ users[last.uid].oauth_id = last.args.id

(***************************************************************************)
(* Properties of tasks and tags (SpecTasks, SpecStatus)                    *)
(***************************************************************************)

TaskOps == {"create_task", "get_task", "list_tasks", "update_task", "delete_task",
            "complete_task", "reopen_task"}
TagOps == {"create_tag", "get_tag", "list_tags", "update_tag", "delete_tag"}

\* Every tag attached to a task exists and belongs to the task's owner.
TagsOfOwner(table, tagtable) ==
    \A k \in TaskUuids : table[k] /= <<>> =>
        \A g \in table[k][1].tags :
            tagtable[g] /= <<>> /\ tagtable[g][1].user_id = table[k][1].user_id

\* C25: a task or tag operation invoked with user id u returns only tasks
\* and tags of u, changes no task and no tag of another user, leaves every
\* task with tags of its own owner only, and answers not found (None or
\* False) when the id it is given belongs to another user.
C25_OwnRecordsOnly ==
    [][last'.op \in TaskOps \cup TagOps =>
          LET u == last'.args.user_id
              out == last'.extra[1]
          IN  /\ \A r \in out.tasks :
                    r.user_id = u /\ \A t \in r.tags : t.user_id = u
              /\ \A r \in out.tags : r.user_id = u
              /\ \A k \in TaskUuids :
                    (tasks[k] /= <<>> /\ tasks[k][1].user_id /= u) => tasks'[k] = tasks[k]
              /\ \A g \in TagUuids :
                    (tags[g] /= <<>> /\ tags[g][1].user_id /= u) => tags'[g] = tags[g]
              /\ TagsOfOwner(tasks', tags')
              /\ (/\ last'.op \in TaskOps \ {"create_task", "list_tasks"}
                  /\ tasks[last'.args.id] /= <<>>
                  /\ tasks[last'.args.id][1].user_id /= u)
                 => /\ last'.outcome \in {"None", "False"}
                    /\ out = Records({}, {})
                    /\ tasks' = tasks /\ tags' = tags
              /\ (/\ last'.op \in TagOps \ {"create_tag", "list_tags"}
                  /\ tags[last'.args.id] /= <<>>
                  /\ tags[last'.args.id][1].user_id /= u)
                 => /\ last'.outcome \in {"None", "False"}
                    /\ out = Records({}, {})
                    /\ tasks' = tasks /\ tags' = tags]_vars

\* A user has just set the tags of its task to a list naming its own tag
\* and another user's: only its own is attached, beside the other user's
\* task.
C25_Witness ==
    /\ last.op = "update_task" /\ last.outcome = "ok"
    /\ last.args.tag_ids = <<TagUuids>>
    /\ \E g \in TagUuids : /\ tags[g] /= <<>>
                           /\ tags[g][1].user_id /= last.args.user_id
    /\ \E g \in TagUuids : tasks[last.args.id][1].tags = {g}
    /\ \E k \in TaskUuids : /\ tasks[k] /= <<>>
                            /\ tasks[k][1].user_id /= last.args.user_id

\* C30: every task has completed_at set exactly when its status is
\* COMPLETED.
C30_CompletedAtIffCompleted ==
    \A k \in TaskUuids : tasks[k] /= <<>> =>
        (tasks[k][1].completed_at /= <<>> <=> tasks[k][1].status = COMPLETED)

(***************************************************************************)
(* Properties of OAuth-only accounts (Spec)                                *)
(***************************************************************************)

\* The user was created by OAuth reconciliation and its holder has set no
\* password since.
OAuthOnly(i) == i \in UserIds /\ chosen[i] = <<>>

\* No operation gives a password credential to a user that OAuth
\* reconciliation created, or takes its provider away.
StaysOAuthOnly ==
    \A i \in UserIds : chosen[i] = <<>> =>
        /\ users[i].hashed_password = NoHash
        /\ users[i].oauth_provider /= None
        /\ chosen'[i] = <<>>
        /\ users'[i].hashed_password = NoHash
        /\ users'[i].oauth_provider /= None

\* C27 as stated: a user created by OAuth reconciliation never acquires a
\* password credential, and every unlink for such a user fails with
\* NoPasswordSet.
C27_UnlinkAlwaysNoPasswordSet ==
    [][/\ StaysOAuthOnly
       /\ (last'.op = "unlink" /\ OAuthOnly(ParseUuid(last'.args.user_id)))
          => last'.outcome = "NoPasswordSet"]_vars

\* C27 as amended: a user created by OAuth reconciliation never acquires a
\* password credential, and every unlink for such a user fails: with
\* NoPasswordSet for the provider it is linked to, with ProviderNotLinked
\* for any other.
C27_OAuthOnlyNeverUnlinks ==
    [][/\ StaysOAuthOnly
       /\ (last'.op = "unlink" /\ OAuthOnly(ParseUuid(last'.args.user_id)))
          => LET i == ParseUuid(last'.args.user_id)
             IN  /\ users' = users
                 /\ last'.outcome = IF users[i].oauth_provider = last'.args.provider
                                    THEN "NoPasswordSet"
                                    ELSE "ProviderNotLinked"]_vars

\* A user that OAuth reconciliation created has just been refused a change
\* of password, next to a user that registered with one.
C27_Witness ==
    /\ last.op = "change_password" /\ last.outcome = "false"
    /\ OAuthOnly(last.uid)
    /\ users[last.uid].hashed_password = NoHash
    /\ \E j \in UserIds : chosen[j] /= <<>>

(***************************************************************************)
(* Properties of the token handed from exchange to user-info (SpecFlow)    *)
(***************************************************************************)

\* C29: whenever exchange_code returns without error the provider access
\* token it returns is present; a success-status token response without an
\* access_token is reported as a failure by the callback, which sends no
\* user-info request bearing an absent token.
C29_ExchangedTokenPresent ==
    /\ (last.op = "exchange_code" /\ last.extra[1].ok)
          => last.extra[1].value[1] /= None
    /\ (/\ last.op = "oauth_callback"
        /\ last.args.settings.OAUTH2_ENABLED
        /\ Configured(last.args.settings, last.args.provider)
        /\ last.args.token_response.access_token = None)
          => (/\ last.outcome \in {"400", "500"}
              /\ \A n \in 1..Len(last.extra[1].calls) :
                    last.extra[1].calls[n].method = "POST")

(***************************************************************************)
(* Properties of deactivated users' sessions (SpecSession)                 *)
(***************************************************************************)

\* The user with this id exists and is deactivated.
Deactivated(table, i) == i \in 1..Len(table) /\ ~table[i].is_active

\* C28: while a user is deactivated, every protected request bearing a
\* token issued for that user, before the deactivation or after it, is
\* rejected with 401, and login and refresh for that user return null; only
\* activate_user makes a deactivated user active again.
C28_DeactivatedStaysOut ==
    [][/\ (/\ last'.op = "refresh_route"
           /\ last'.args.credentials /= NoCredentials
           /\ IsUuid(last'.args.credentials[1].payload.sub)
           /\ Deactivated(users', ParseUuid(last'.args.credentials[1].payload.sub)))
          => (/\ last'.outcome = "401"
              /\ last'.extra = <<Unauthenticated>>
              /\ last'.token = <<>>)
       /\ (/\ last'.op = "login"
           /\ \E i \in 1..Len(users') : /\ users'[i].email = last'.args.email
                                        /\ ~users'[i].is_active)
          => LoginRefusal(last')
       /\ (/\ last'.op = "refresh"
           /\ Deactivated(users', last'.args.user_id))
          => (last'.outcome = "null" /\ last'.token = <<>>)
       /\ \A i \in UserIds :
             (~users[i].is_active /\ users'[i].is_active)
                => (last'.op = "activate_user" /\ last'.uid = i)]_vars

\* A deactivated user has been handed a token by oauth_login or holds an
\* unexpired one from earlier, and the protected request bearing it has
\* just been answered 401.
C28_Witness ==
    /\ last.op = "refresh_route" /\ last.outcome = "401"
    /\ last.args.credentials /= NoCredentials
    /\ decode_access_token(last.args.credentials[1], now).ok
    /\ last.args.credentials[1].payload.iat < now
    /\ Deactivated(users, ParseUuid(last.args.credentials[1].payload.sub))
    /\ users[ParseUuid(last.args.credentials[1].payload.sub)].oauth_provider /= None

(***************************************************************************)
(* Properties of concurrent links (SpecLinkRace)                           *)
(***************************************************************************)

\* Both requests raced for a pair no user held, for different users, and
\* both have returned.
LinkRacedForUnseen ==
    /\ \A c \in Callers : /\ inflight[c].pc = "done"
                          /\ inflight[c].unseen
                          /\ inflight[c].raced
    /\ SameIdentity(inflight["r1"].info[1], inflight["r2"].info[1])
    /\ inflight["r1"].user_id /= inflight["r2"].user_id

\* C26: when two link calls by different users for the same unlinked
\* (provider, external_id) interleave, at most one of them succeeds, and in
\* no reachable state do two users hold the same pair.
C26_LinkRaceOneWinner ==
    /\ LinkRacedForUnseen =>
          ~(\A c \in Callers : inflight[c].result[1].outcome = "ok")
    /\ \A i \in UserIds, j \in UserIds :
          (i /= j /\ users[i].oauth_provider /= None)
             => ~(/\ users[j].oauth_provider = users[i].oauth_provider
                  /\ users[j].oauth_id = users[i].oauth_id)

====
